---------------------------- MODULE Spec2Model ----------------------------
(***************************************************************************)
(* Atlantis: dark-vessel detection pipeline.                               *)
(*                                                                         *)
(* Model of the detection step (src/ai_models/detector.py), of the fusion  *)
(* step (src/ai_models/fusion.py), of the evidence hashing step            *)
(* (src/forensics/hasher.py), of the timestamp step                        *)
(* (src/forensics/timestamp.py), of the scene file name parser             *)
(* (src/ingestion/sar_fetch.py) and of steps 2 to 6 of a pipeline run      *)
(* (app.py).                                                               *)
(*                                                                         *)
(* Conventions.                                                            *)
(*  - A Python dict is a sequence of <<key, value>> pairs in insertion      *)
(*    order with pairwise distinct keys.                                   *)
(*  - A Python value stored in a dict is a record [t, s]: t is the Python  *)
(*    type ("int", "float", "str", "obj" for any value json cannot encode  *)
(*    natively) and s is the text str(value) returns.                      *)
(*  - Coordinates are integers on a half-degree grid: n stands for n/2     *)
(*    degrees, so the 1.0 degree threshold is 2.                           *)
(***************************************************************************)
EXTENDS Integers, Sequences, FiniteSets, TLC

VARIABLES
    ais_data,            \* list of AIS pings handed to find_dark_vessels
    radar_detections,    \* list of detection dicts
    sar_metadata,        \* scene descriptor
    fusion_status,       \* "idle" | "returned" | "KeyError"
    ais_ships_in_area,   \* GeoFilter output of the latest call
    match_outcome,       \* per detection: index of the matched candidate, 0 = none
    matched_vessels,     \* local list of the latest call
    dark_vessels,        \* incident list returned by the latest call
    image_path,          \* sar_metadata["image_path"]
    image_file,          \* the file at image_path: [exists, bytes]
    hash_status,         \* "idle" | "returned"
    hash_result,         \* dict returned by the latest hash_evidence call
    hash_warning,        \* the latest call printed the "Image not found" warning
    hash_prev,           \* dict returned by the call before the latest one
    delta,               \* what changed in the evidence since the latest call
    last_delta,          \* what changed between the two latest calls
    pc,                  \* the step of app.py the pipeline run is at
    timestamp_result,    \* dict returned by get_ist_timestamp
    reports,             \* ids of the report files in REPORTS_DIR
    report_id,           \* id of the report generate_report wrote in this run
    api_key,             \* the key typed in the sidebar ("" = none)
    vision_outcome,      \* what the vision service did with the request of this run
    vision_calls,        \* number of generate_content calls made so far
    detection_source,    \* the label app.py step 2 shows
    time_response,       \* what the time authority does with a request
    clock_now,           \* the instant the system clock shows
    timestamp_status,    \* "idle" | "returned"
    time_calls,          \* number of requests.get calls made so far
    filename,            \* the file name handed to _parse_filename (characters)
    name_parts,          \* the parts the file name was put together from
    parse_result,        \* what _parse_filename did with it
    rng_stream,          \* the output sequence of the generator of module random
    rng_pos              \* how far the process has consumed it

fusionVars == <<ais_data, radar_detections, sar_metadata, fusion_status,
                ais_ships_in_area, match_outcome, matched_vessels, dark_vessels>>
hashVars == <<image_path, image_file, hash_status, hash_result, hash_warning,
              hash_prev, delta, last_delta>>

detectVars == <<api_key, vision_outcome, vision_calls, detection_source>>
timeVars == <<time_response, clock_now, timestamp_status, time_calls>>
parseVars == <<filename, name_parts, parse_result>>
rngVars == <<rng_stream, rng_pos>>

pipelineVars == <<pc, timestamp_result, reports, report_id, detectVars, timeVars,
                  parseVars, rngVars>>

vars == <<fusionVars, hashVars, pipelineVars>>

----------------------------------------------------------------------------
(* Bounds of the model *)

MaxPings == 2
MaxDets == 2

(* 1.0 degree (fusion.py line 37) on the half-degree grid *)
GEO_THRESHOLD == 2

ShipIds == {"SHIP_1000", "SHIP_1001"}
PingCoords == {-2, 1}
SceneDates == {"2026-02-20"}

----------------------------------------------------------------------------
(* Python values and dicts *)

PyInt(n) == [t |-> "int", s |-> ToString(n)]
PyFloat(s) == [t |-> "float", s |-> s]
PyStr(s) == [t |-> "str", s |-> s]
PyObj(s) == [t |-> "obj", s |-> s]

Keys(d) == {d[i][1] : i \in 1..Len(d)}
HasKey(d, k) == k \in Keys(d)
\* d[k]; the caller checks HasKey first (a missing key is a KeyError)
Item(d, k) == d[CHOOSE i \in 1..Len(d) : d[i][1] = k][2]
\* d.get(k, default)
Get(d, k, default) == IF HasKey(d, k) THEN Item(d, k) ELSE default

Abs(x) == IF x < 0 THEN -x ELSE x

\* f"{x:.5f}" for x = n/2, n >= 0
Fmt5(n) == ToString(n \div 2) \o (IF n % 2 = 0 THEN ".00000" ELSE ".50000")
\* str(x) of the float x = n/2
FloatStr(n) == (IF n < 0 THEN "-" ELSE "") \o ToString(Abs(n) \div 2)
               \o (IF n % 2 = 0 THEN ".0" ELSE ".5")

----------------------------------------------------------------------------
(* fusion.py *)

\* variant: the comparison admits the threshold itself
is_nearby_inclusive(lat1, lon1, lat2, lon2, threshold) ==
    Abs(lat1 - lat2) <= threshold /\ Abs(lon1 - lon2) <= threshold

is_nearby(lat1, lon1, lat2, lon2, threshold) ==
    Abs(lat1 - lat2) < threshold /\ Abs(lon1 - lon2) < threshold

\* Step 1: the loop over ais_data; acc is ais_ships_in_area so far, the set
\* unique_ships is the set of ship ids in acc.
RECURSIVE GeoFilterLoop(_, _, _, _)
GeoFilterLoop(ais, sar, i, acc) ==
    IF i > Len(ais) THEN acc
    ELSE LET record == ais[i]
             unique_ships == {acc[j].ship_id : j \in 1..Len(acc)}
         IN IF is_nearby(record.latitude, record.longitude,
                         sar.latitude, sar.longitude, GEO_THRESHOLD)
               /\ record.ship_id \notin unique_ships
            THEN GeoFilterLoop(ais, sar, i + 1, Append(acc, record))
            ELSE GeoFilterLoop(ais, sar, i + 1, acc)

\* variant: a later ping of a ship already listed replaces the listed one
RECURSIVE GeoFilterKeepLastLoop(_, _, _, _)
GeoFilterKeepLastLoop(ais, sar, i, acc) ==
    IF i > Len(ais) THEN acc
    ELSE LET record == ais[i] IN
         IF ~is_nearby(record.latitude, record.longitude,
                       sar.latitude, sar.longitude, GEO_THRESHOLD)
         THEN GeoFilterKeepLastLoop(ais, sar, i + 1, acc)
         ELSE IF \E j \in 1..Len(acc) : acc[j].ship_id = record.ship_id
         THEN GeoFilterKeepLastLoop(ais, sar, i + 1,
                  [j \in 1..Len(acc) |->
                      IF acc[j].ship_id = record.ship_id THEN record ELSE acc[j]])
         ELSE GeoFilterKeepLastLoop(ais, sar, i + 1, Append(acc, record))

GeoFilterKeepLast(ais, sar) == GeoFilterKeepLastLoop(ais, sar, 1, <<>>)

GeoFilter(ais, sar) == GeoFilterLoop(ais, sar, 1, <<>>)

\* the behavioral_anomaly f-string (the degree sign is written "deg")
AnomalyText(sar) ==
    "Vessel detected via SAR at " \o Fmt5(Abs(sar.latitude)) \o "deg"
    \o (IF sar.latitude >= 0 THEN "N" ELSE "S") \o ", "
    \o Fmt5(Abs(sar.longitude)) \o "deg"
    \o (IF sar.longitude >= 0 THEN "E" ELSE "W") \o " on " \o sar.date
    \o ". No AIS transponder signal was received from this location, "
    \o "creating a 'Dark Period' in protected waters."

\* (the dash of violation_type is written "-")
AIS_STATUS == "NO SIGNAL DETECTED"
VIOLATION_TYPE == "AIS Transponder Disabled - Unauthorized Dark Operation"

\* variant: the width entry is filled from the length field
DarkVesselLengthAsWidth(detection, sar) ==
    << <<"radar_id", Item(detection, "vessel_id")>>,
       <<"vessel_type", Get(detection, "vessel_type", PyStr("Unknown"))>>,
       <<"estimated_length_m", Get(detection, "estimated_length_m", PyInt(0))>>,
       <<"estimated_width_m", Get(detection, "estimated_length_m", PyInt(0))>>,
       <<"confidence", Get(detection, "confidence", PyInt(0))>>,
       <<"relative_position", Get(detection, "relative_position", PyStr("unknown"))>>,
       <<"sar_latitude", PyFloat(FloatStr(sar.latitude))>>,
       <<"sar_longitude", PyFloat(FloatStr(sar.longitude))>>,
       <<"sar_date", PyStr(sar.date)>>,
       <<"ais_status", PyStr("NO SIGNAL DETECTED")>>,
       <<"violation_type",
         PyStr("AIS Transponder Disabled - Unauthorized Dark Operation")>>,
       <<"behavioral_anomaly", PyStr(AnomalyText(sar))>> >>

\* the dark_vessel dict literal, keys in the order of the literal
DarkVessel(detection, sar) ==
    << <<"radar_id", Item(detection, "vessel_id")>>,
       <<"vessel_type", Get(detection, "vessel_type", PyStr("Unknown"))>>,
       <<"estimated_length_m", Get(detection, "estimated_length_m", PyInt(0))>>,
       <<"estimated_width_m", Get(detection, "estimated_width_m", PyInt(0))>>,
       <<"confidence", Get(detection, "confidence", PyInt(0))>>,
       <<"relative_position", Get(detection, "relative_position", PyStr("unknown"))>>,
       <<"sar_latitude", PyFloat(FloatStr(sar.latitude))>>,
       <<"sar_longitude", PyFloat(FloatStr(sar.longitude))>>,
       <<"sar_date", PyStr(sar.date)>>,
       <<"ais_status", PyStr(AIS_STATUS)>>,
       <<"violation_type", PyStr(VIOLATION_TYPE)>>,
       <<"behavioral_anomaly", PyStr(AnomalyText(sar))>> >>

MatchedVessel(detection, ais_ship) ==
    [radar |-> detection, ais |-> ais_ship, status |-> "IDENTIFIED"]

\* the locals of a call before the loop over radar_detections starts
NoResult(candidates) ==
    [status |-> "returned", candidates |-> candidates, outcome |-> <<>>,
     matched |-> <<>>, dark |-> <<>>]

\* The inner loop over ais_ships_in_area for one detection.  Each iteration
\* draws random.random() < 0.4; the loop breaks at the first accepted draw.
\* The draws of one detection are summarised by the index of the first
\* accepted candidate, 0 when every draw was rejected (or no draw was made).
DrawOutcomes(candidates) == 0..Len(candidates)

\* Step 2: the loop over radar_detections under the draws `pick`
\* (pick[i] \in DrawOutcomes).  Both branches read detection["vessel_id"], so a
\* detection without it raises KeyError and the call returns nothing.
RECURSIVE MatchLoop(_, _, _, _, _, _)
MatchLoop(dets, candidates, sar, pick, i, acc) ==
    IF i > Len(dets) THEN acc
    ELSE LET detection == dets[i] IN
         IF ~HasKey(detection, "vessel_id")
         THEN [acc EXCEPT !.status = "KeyError", !.outcome = <<>>, !.matched = <<>>,
                         !.dark = <<>>]
         ELSE IF pick[i] # 0
         THEN MatchLoop(dets, candidates, sar, pick, i + 1,
                  [acc EXCEPT !.outcome = Append(@, pick[i]),
                              !.matched = Append(@, MatchedVessel(detection,
                                                     candidates[pick[i]]))])
         ELSE MatchLoop(dets, candidates, sar, pick, i + 1,
                  [acc EXCEPT !.outcome = Append(@, 0),
                              !.dark = Append(@, DarkVessel(detection, sar))])

\* variants of the loop: "every" emits an incident for every detection,
\* "needs_ais" emits one only when the candidate list is not empty
RECURSIVE MatchLoopVariant(_, _, _, _, _, _, _)
MatchLoopVariant(dets, candidates, sar, pick, i, acc, mode) ==
    IF i > Len(dets) THEN acc
    ELSE LET detection == dets[i]
             matched == pick[i] # 0
             acc1 == IF matched
                     THEN [acc EXCEPT !.outcome = Append(@, pick[i]),
                                      !.matched = Append(@, MatchedVessel(detection,
                                                             candidates[pick[i]]))]
                     ELSE [acc EXCEPT !.outcome = Append(@, 0)]
             emit == IF mode = "every" THEN TRUE
                     ELSE ~matched /\ candidates # <<>>
         IN IF ~HasKey(detection, "vessel_id")
            THEN [acc EXCEPT !.status = "KeyError", !.outcome = <<>>, !.matched = <<>>,
                         !.dark = <<>>]
            ELSE MatchLoopVariant(dets, candidates, sar, pick, i + 1,
                     IF emit THEN [acc1 EXCEPT !.dark = Append(@, DarkVessel(detection, sar))]
                     ELSE acc1, mode)

find_dark_vessels_every(ais, dets, sar, pick) ==
    MatchLoopVariant(dets, GeoFilter(ais, sar), sar, pick, 1,
        NoResult(GeoFilter(ais, sar)), "every")

find_dark_vessels_needs_ais(ais, dets, sar, pick) ==
    MatchLoopVariant(dets, GeoFilter(ais, sar), sar, pick, 1,
        NoResult(GeoFilter(ais, sar)), "needs_ais")

Reverse(q) == [i \in 1..Len(q) |-> q[Len(q) + 1 - i]]

\* variant: an incident is inserted at the head of dark_vessels
find_dark_vessels_newest_first(ais, dets, sar, pick) ==
    LET r == MatchLoop(dets, GeoFilter(ais, sar), sar, pick, 1,
                       NoResult(GeoFilter(ais, sar)))
    IN [r EXCEPT !.dark = Reverse(@)]

find_dark_vessels(ais, dets, sar, pick) ==
    MatchLoop(dets, GeoFilter(ais, sar), sar, pick, 1, NoResult(GeoFilter(ais, sar)))

----------------------------------------------------------------------------
(* module random, as fusion.py, detector.py, ais_stream.py and pdf_gen.py use
   it: the functions random.random, random.randint, random.choice ... are
   methods of one generator object of the process. No source file seeds it, so
   its output sequence is any sequence; every call consumes some of it. *)

\* the length of the output sequence looked at; after it the model starts over
StreamLen == 3

\* `stream` says for every output whether, taken by random.random(), it is
\* below 0.4
Streams == [1..StreamLen -> BOOLEAN]
Draw(stream, pos) == stream[(pos % Len(stream)) + 1]

\* the inner loop of fusion.py lines 53-64 with the generator at position pos:
\* one random.random() per candidate until one is below 0.4; the index of
\* that candidate (0 = none) and the position afterwards
RECURSIVE FirstAccepted(_, _, _, _)
FirstAccepted(n, stream, pos, j) ==
    IF j > n THEN [pick |-> 0, pos |-> pos]
    ELSE IF Draw(stream, pos) THEN [pick |-> j, pos |-> pos + 1]
    ELSE FirstAccepted(n, stream, pos + 1, j + 1)

\* the draws of the loop over the detections, one inner loop after the other
RECURSIVE DrawPicks(_, _, _, _, _)
DrawPicks(ndets, n, stream, pos, acc) ==
    IF Len(acc) = ndets THEN [pick |-> acc, pos |-> pos]
    ELSE LET f == FirstAccepted(n, stream, pos, 1)
         IN DrawPicks(ndets, n, stream, f.pos, Append(acc, f.pick))

\* find_dark_vessels called with the generator at position pos
find_dark_vessels_at(ais, dets, sar, stream, pos) ==
    LET d == DrawPicks(Len(dets), Len(GeoFilter(ais, sar)), stream, pos, <<>>)
    IN [result |-> find_dark_vessels(ais, dets, sar, d.pick), pos |-> d.pos]

----------------------------------------------------------------------------
(* detector.py *)

(* A JSON value of the response text is a list (elems), a dict (dict) or any
   other value (a string, a number, null); an element of a list is one of the
   latter two. *)
JsonDictValue(d) == [t |-> "dict", elems |-> <<>>, dict |-> d]
JsonListValue(elems) == [t |-> "list", elems |-> elems, dict |-> <<>>]
JsonOther == [t |-> "other", elems |-> <<>>, dict |-> <<>>]

\* random.randint(2, 5), line 44: the smallest number of fallback detections
FALLBACK_MIN == 2
\* the largest number of fallback detections drawn in the model
MaxFallback == 3

FallbackDetection(i, vessel_type) ==
    << <<"vessel_id", PyStr("RADAR_00" \o ToString(i))>>,
       <<"vessel_type", PyStr(vessel_type)>>,
       <<"estimated_length_m", PyInt(20)>>,
       <<"estimated_width_m", PyInt(5)>>,
       <<"confidence", PyInt(60)>>,
       <<"relative_position", PyStr("center")>> >>

\* fallback_detections() when random.randint gave num and every random.choice
\* of a vessel type gave vessel_type
fallback_detections(num, vessel_type) ==
    [i \in 1..num |-> FallbackDetection(i, vessel_type)]

FallbackDraws ==
    {fallback_detections(num, vessel_type) :
         num \in FALLBACK_MIN..MaxFallback, vessel_type \in {"Cargo Ship", "Tanker"}}

\* variant: a failed generate_content call is made a second time
detect_vessels_retry(key, file, outcome, fallback) ==
    IF key = "" \/ key = "your_gemini_api_key_here"
    THEN [status |-> "returned", detections |-> fallback, calls |-> 0]
    ELSE IF ~file.exists
    THEN [status |-> "raised", detections |-> <<>>, calls |-> 0]
    ELSE IF outcome.kind = "api_error"
    THEN [status |-> "raised", detections |-> <<>>, calls |-> 2]
    ELSE IF outcome.kind = "invalid_json"
    THEN [status |-> "returned", detections |-> fallback, calls |-> 1]
    ELSE LET detections == IF outcome.value.t = "list"
                           THEN outcome.value.elems ELSE <<outcome.value>>
         IN IF \E i \in 1..Len(detections) : detections[i].t # "dict"
            THEN [status |-> "raised", detections |-> <<>>, calls |-> 1]
            ELSE [status |-> "returned",
                  detections |-> [i \in 1..Len(detections) |-> detections[i].dict],
                  calls |-> 1]

\* detect_vessels(image_path, api_key, model_name); `file` is the file at
\* image_path, `outcome` what the vision service does with a request, `fallback`
\* what fallback_detections() returns if it is called; `calls` is the number of
\* generate_content calls made.
detect_vessels(key, file, outcome, fallback) ==
    IF key = "" \/ key = "your_gemini_api_key_here"
    THEN [status |-> "returned", detections |-> fallback, calls |-> 0]
    \* Path(image_path).read_bytes() raises before the request is sent
    ELSE IF ~file.exists
    THEN [status |-> "raised", detections |-> <<>>, calls |-> 0]
    ELSE IF outcome.kind = "api_error"
    THEN [status |-> "raised", detections |-> <<>>, calls |-> 1]
    \* json.JSONDecodeError
    ELSE IF outcome.kind = "invalid_json"
    THEN [status |-> "returned", detections |-> fallback, calls |-> 1]
    ELSE LET detections == IF outcome.value.t = "list"
                           THEN outcome.value.elems ELSE <<outcome.value>>
         IN \* d.get of the print loop: AttributeError unless d is a dict
            IF \E i \in 1..Len(detections) : detections[i].t # "dict"
            THEN [status |-> "raised", detections |-> <<>>, calls |-> 1]
            ELSE [status |-> "returned",
                  detections |-> [i \in 1..Len(detections) |-> detections[i].dict],
                  calls |-> 1]

----------------------------------------------------------------------------
(* hasher.py *)

(* Byte strings are strings.  hashlib.sha256 is an ideal hash: the digest of a
   byte string is a text that names the byte string, so two digests are equal
   exactly when the hashed bytes are equal.  A hasher object is the bytes it
   has been fed. *)
NewHasher == ""
Update(hasher, bytes) == hasher \o bytes
HexDigest(hasher) == "sha256(" \o hasher \o ")"

\* the keys that occur, in ascending (code point) order
KeyOrder ==
    <<"ais_status", "behavioral_anomaly", "confidence", "dark_vessels",
      "detections", "estimated_length_m", "estimated_width_m", "radar_id",
      "relative_position", "sar_date", "sar_latitude", "sar_longitude",
      "vessel_id", "vessel_type", "violation_type">>

\* sorted(items) on the keys: the keys present, in ascending order, each with
\* its item
SortItems(items) ==
    LET present == SelectSeq(KeyOrder, LAMBDA k : \E i \in 1..Len(items) : items[i][1] = k)
    IN [r \in 1..Len(present) |->
           items[CHOOSE i \in 1..Len(items) : items[i][1] = present[r]]]

\* sep.join(texts), from position i on
RECURSIVE JoinFrom(_, _, _)
JoinFrom(texts, sep, i) ==
    IF i > Len(texts) THEN ""
    ELSE IF i = Len(texts) THEN texts[i]
    ELSE texts[i] \o sep \o JoinFrom(texts, sep, i + 1)

Join(texts, sep) == JoinFrom(texts, sep, 1)

Quote(s) == "\"" \o s \o "\""

\* json text of one value: numbers by their repr, strings quoted, and any
\* other object through default=str, that is as the string str(o)
JsonValue(v) ==
    IF v.t \in {"int", "float"} THEN v.s
    ELSE IF v.t = "str" THEN Quote(v.s)
    ELSE Quote(v.s)

\* json text of a dict whose values are already json text; separators are the
\* defaults of json.dumps, ", " and ": "
JsonObject(items, sort_keys) ==
    LET ordered == IF sort_keys THEN SortItems(items) ELSE items
    IN "{" \o Join([i \in 1..Len(ordered) |->
                       Quote(ordered[i][1]) \o ": " \o ordered[i][2]], ", ") \o "}"

JsonDict(d, sort_keys) ==
    JsonObject([i \in 1..Len(d) |-> <<d[i][1], JsonValue(d[i][2])>>], sort_keys)

JsonList(l, sort_keys) ==
    "[" \o Join([i \in 1..Len(l) |-> JsonDict(l[i], sort_keys)], ", ") \o "]"

\* variant: keys are written in insertion order
json_dumps_unsorted(detection_results, dark) ==
    JsonObject(<< <<"detections", JsonList(detection_results, FALSE)>>,
                  <<"dark_vessels", JsonList(dark, FALSE)>> >>, FALSE)

\* variant: only the keys of the outer object are sorted
json_dumps_top_sorted(detection_results, dark) ==
    JsonObject(<< <<"detections", JsonList(detection_results, FALSE)>>,
                  <<"dark_vessels", JsonList(dark, FALSE)>> >>, TRUE)

\* json.dumps({"detections": ..., "dark_vessels": ...}, sort_keys=True, default=str)
json_dumps(detection_results, dark) ==
    JsonObject(<< <<"detections", JsonList(detection_results, TRUE)>>,
                  <<"dark_vessels", JsonList(dark, TRUE)>> >>, TRUE)

\* str.encode("utf-8"): json.dumps escapes every non-ASCII character, so the
\* text is ASCII and its bytes are its characters
EncodeUtf8(text) == text

\* variant: the combined digest is the digest of the two hex digests
hash_evidence_of_digests(path, file, detection_results, dark) ==
    LET data_bytes == EncodeUtf8(json_dumps(detection_results, dark))
        image_bytes == IF file.exists THEN file.bytes ELSE ""
        image_hash == HexDigest(Update(NewHasher, image_bytes))
        data_hash == HexDigest(Update(NewHasher, data_bytes))
    IN [evidence_hash |-> HexDigest(Update(Update(NewHasher, image_hash), data_hash)),
        image_hash |-> image_hash,
        data_hash |-> data_hash,
        algorithm |-> "SHA-256",
        warning |-> ~file.exists]

\* variant: the combined hasher is not fed the image bytes
hash_evidence_no_image(path, file, detection_results, dark) ==
    LET data_bytes == EncodeUtf8(json_dumps(detection_results, dark))
        hasher_image == IF file.exists THEN Update(NewHasher, file.bytes) ELSE NewHasher
    IN [evidence_hash |-> HexDigest(Update(NewHasher, data_bytes)),
        image_hash |-> HexDigest(hasher_image),
        data_hash |-> HexDigest(Update(NewHasher, data_bytes)),
        algorithm |-> "SHA-256",
        warning |-> ~file.exists]

\* variant: a missing image is fed to the hashers as its path
hash_evidence_path(path, file, detection_results, dark) ==
    LET data_bytes == EncodeUtf8(json_dumps(detection_results, dark))
        image_bytes == IF file.exists THEN file.bytes ELSE path
    IN [evidence_hash |-> HexDigest(Update(Update(NewHasher, image_bytes), data_bytes)),
        image_hash |-> HexDigest(Update(NewHasher, image_bytes)),
        data_hash |-> HexDigest(Update(NewHasher, data_bytes)),
        algorithm |-> "SHA-256",
        warning |-> ~file.exists]

\* variant: no image hash is reported for a missing image
hash_evidence_no_digest(path, file, detection_results, dark) ==
    LET data_bytes == EncodeUtf8(json_dumps(detection_results, dark))
        image_bytes == IF file.exists THEN file.bytes ELSE ""
    IN [evidence_hash |-> HexDigest(Update(Update(NewHasher, image_bytes), data_bytes)),
        image_hash |-> IF file.exists THEN HexDigest(Update(NewHasher, image_bytes))
                       ELSE "",
        data_hash |-> HexDigest(Update(NewHasher, data_bytes)),
        algorithm |-> "SHA-256",
        warning |-> ~file.exists]

\* hash_evidence(image_path, detection_results, dark_vessels); `file` is the
\* file found at image_path.  `warning` is the "WARNING: Image not found" line.
hash_evidence(path, file, detection_results, dark) ==
    LET hasher_image == IF file.exists THEN Update(NewHasher, file.bytes) ELSE NewHasher
        hasher_full1 == IF file.exists THEN Update(NewHasher, file.bytes) ELSE NewHasher
        evidence_json == json_dumps(detection_results, dark)
        data_bytes == EncodeUtf8(evidence_json)
        hasher_data == Update(NewHasher, data_bytes)
        hasher_full == Update(hasher_full1, data_bytes)
    IN [evidence_hash |-> HexDigest(hasher_full),
        image_hash |-> HexDigest(hasher_image),
        data_hash |-> HexDigest(hasher_data),
        algorithm |-> "SHA-256",
        warning |-> ~file.exists]

----------------------------------------------------------------------------
(* timestamp.py *)

(* An instant is a number of minutes since 2026-02-18 00:00 UTC; a datetime is
   an instant with the UTC offset (minutes) of its timezone. *)
IST_OFFSET == 330

Pad2(n) == IF n < 10 THEN "0" \o ToString(n) ELSE ToString(n)

\* dt.strftime("%Y-%m-%d %H:%M:%S"): the wall clock of dt in its own timezone
Strftime(dt) ==
    LET wall == dt.instant + dt.offset
    IN "2026-02-" \o Pad2(18 + wall \div 1440) \o " "
       \o Pad2((wall % 1440) \div 60) \o ":" \o Pad2(wall % 60) \o ":00"

\* dt.astimezone(tz): the same instant, in the timezone of offset `offset`
AsTimezone(dt, offset) == [instant |-> dt.instant, offset |-> offset]

TIMEZONE_LABEL == "Asia/Kolkata (IST, UTC+05:30)"

\* what makes a statement of the try block raise: requests.get (unreachable,
\* timeout), raise_for_status (http_error), response.json (malformed) and
\* fromisoformat of the "" that data.get returns (no_datetime)
TimeFailures == {"unreachable", "timeout", "http_error", "malformed", "no_datetime"}

\* number of requests.get calls of one get_ist_timestamp call: the try block
\* holds one call and no loop
time_requests(response) == 1

\* variant: the fallback formats the UTC clock for both strings
get_ist_timestamp_utc_fallback(response, now) ==
    IF response.status = "ok"
    THEN [datetime_ist |-> Strftime(response.datetime),
          datetime_utc |-> Strftime(AsTimezone(response.datetime, 0)),
          source |-> "worldtimeapi.org (Internet)",
          timezone |-> TIMEZONE_LABEL]
    ELSE [datetime_ist |-> Strftime([instant |-> now, offset |-> 0]),
          datetime_utc |-> Strftime([instant |-> now, offset |-> 0]),
          source |-> "System Clock (Fallback)",
          timezone |-> TIMEZONE_LABEL]

\* variant: on the remote path the label names the timezone of the body
get_ist_timestamp_body_label(response, now) ==
    IF response.status = "ok"
    THEN [datetime_ist |-> Strftime(response.datetime),
          datetime_utc |-> Strftime(AsTimezone(response.datetime, 0)),
          source |-> "worldtimeapi.org (Internet)",
          timezone |-> IF response.datetime.offset = IST_OFFSET
                       THEN TIMEZONE_LABEL ELSE "UTC"]
    ELSE [datetime_ist |-> Strftime([instant |-> now, offset |-> IST_OFFSET]),
          datetime_utc |-> Strftime([instant |-> now, offset |-> 0]),
          source |-> "System Clock (Fallback)",
          timezone |-> TIMEZONE_LABEL]

\* get_ist_timestamp(); `response` is what requests.get and the parsing of its
\* body gave: status "ok" with the datetime of the body, or a failure
\* (unreachable, timeout, error status, malformed body) that raises inside the
\* try block; `now` is the instant the system clock shows.
get_ist_timestamp(response, now) ==
    IF response.status = "ok"
    THEN LET ist_dt == response.datetime
             utc_dt == AsTimezone(ist_dt, 0)
         IN [datetime_ist |-> Strftime(ist_dt),
             datetime_utc |-> Strftime(utc_dt),
             source |-> "worldtimeapi.org (Internet)",
             timezone |-> TIMEZONE_LABEL]
    ELSE LET utc_dt == [instant |-> now, offset |-> 0]
             ist_dt == AsTimezone(utc_dt, IST_OFFSET)
         IN [datetime_ist |-> Strftime(ist_dt),
             datetime_utc |-> Strftime(utc_dt),
             source |-> "System Clock (Fallback)",
             timezone |-> TIMEZONE_LABEL]

----------------------------------------------------------------------------
(* sar_fetch.py *)

(* A file name is a sequence of characters. A float is a sign and a magnitude
   on the half-degree grid, so that -0.0 and 0.0 are two values. *)
DigitChars == {"0", "1", "2", "3", "4", "5", "6", "7", "8", "9"}
\* the class [\d.] of the pattern
NumChars == DigitChars \cup {"."}

At(name, i) == IF i \in 1..Len(name) THEN name[i] ELSE ""

\* name[a-1:b], the characters at positions a to b that the name has
Slice(name, a, b) ==
    [i \in 1..((IF b > Len(name) THEN Len(name) ELSE b) - a + 1) |-> name[a + i - 1]]

\* the position of the last character of the longest run of characters of
\* `class` that starts at position i (i - 1 when there is none)
RECURSIVE RunEnd(_, _, _)
RunEnd(name, i, class) ==
    IF At(name, i) \in class THEN RunEnd(name, i + 1, class) ELSE i - 1

\* \d{4}-\d{2}-\d{2} at position d
DateAt(name, d) ==
    /\ \A i \in {0, 1, 2, 3, 5, 6, 8, 9} : At(name, d + i) \in DigitChars
    /\ At(name, d + 4) = "-"
    /\ At(name, d + 7) = "-"

\* re.match(pattern, filename): the groups of the match, or no match. Neither
\* [NS] nor [EW] is in the class [\d.], so each run is the longest one; `$`
\* matches at the end and before a line feed that ends the name.
ReMatch(name) ==
    LET e1 == RunEnd(name, 1, NumChars)
        e3 == RunEnd(name, e1 + 3, NumChars)
        d == e3 + 3
        x == d + 10
    IN [matched |-> /\ e1 >= 1
                    /\ At(name, e1 + 1) \in {"N", "S"}
                    /\ At(name, e1 + 2) = "_"
                    /\ e3 >= e1 + 3
                    /\ At(name, e3 + 1) \in {"E", "W"}
                    /\ At(name, e3 + 2) = "_"
                    /\ DateAt(name, d)
                    /\ Slice(name, x, x + 4) = <<".", "j", "p", "e", "g">>
                    /\ \/ Len(name) = x + 4
                       \/ Len(name) = x + 5 /\ name[x + 5] = "\n",
        group1 |-> Slice(name, 1, e1),
        group2 |-> At(name, e1 + 1),
        group3 |-> Slice(name, e1 + 3, e3),
        group4 |-> At(name, e3 + 1),
        group5 |-> Slice(name, d, d + 9)]

DigitValue(c) == CHOOSE n \in 0..9 : ToString(n) = c

\* the number the first n characters (digits) of text are the numeral of
RECURSIVE IntOf(_, _)
IntOf(text, n) ==
    IF n = 0 THEN 0 ELSE 10 * IntOf(text, n - 1) + DigitValue(text[n])

\* float(text) of a run of digits and points is a ValueError unless the run has
\* at most one point and at least one digit
IsNumeral(text) ==
    /\ Cardinality({i \in 1..Len(text) : text[i] = "."}) <= 1
    /\ \E i \in 1..Len(text) : text[i] \in DigitChars

\* float(text) in half degrees, for a numeral whose fraction is none, .0 or .5
FloatOf(text) ==
    LET point == IF \E i \in 1..Len(text) : text[i] = "."
                 THEN CHOOSE i \in 1..Len(text) : text[i] = "."
                 ELSE Len(text) + 1
    IN 2 * IntOf(text, point - 1) + (IF At(text, point + 1) = "5" THEN 1 ELSE 0)

ParseResult(status, lat, lon, lat_dir, lon_dir, date) ==
    [status |-> status, latitude |-> lat, longitude |-> lon,
     lat_direction |-> lat_dir, lon_direction |-> lon_dir, date |-> date]

NoFloat == [neg |-> FALSE, mag |-> 0]

\* variant: only the latitude is converted to a signed value
parse_filename_lat_only(name) ==
    LET match == ReMatch(name) IN
    IF ~match.matched
    THEN ParseResult("None", NoFloat, NoFloat, "", "", <<>>)
    ELSE IF ~IsNumeral(match.group1) \/ ~IsNumeral(match.group3)
    THEN ParseResult("ValueError", NoFloat, NoFloat, "", "", <<>>)
    ELSE ParseResult("dict",
                     [neg |-> match.group2 = "S", mag |-> FloatOf(match.group1)],
                     [neg |-> FALSE, mag |-> FloatOf(match.group3)],
                     match.group2, match.group4, match.group5)

\* _parse_filename(filename): "None", a ValueError of float(), or the dict;
\* unary minus sets the sign of a float, of zero too
parse_filename(name) ==
    LET match == ReMatch(name) IN
    IF ~match.matched
    THEN ParseResult("None", NoFloat, NoFloat, "", "", <<>>)
    ELSE IF ~IsNumeral(match.group1) \/ ~IsNumeral(match.group3)
    THEN ParseResult("ValueError", NoFloat, NoFloat, "", "", <<>>)
    ELSE ParseResult("dict",
                     [neg |-> match.group2 = "S", mag |-> FloatOf(match.group1)],
                     [neg |-> match.group4 = "W", mag |-> FloatOf(match.group3)],
                     match.group2, match.group4, match.group5)

----------------------------------------------------------------------------
(* pdf_gen.py *)

\* _generate_report_id(): "GMIE-2026-" and five random digits
ReportIds == {"GMIE-2026-00000", "GMIE-2026-00001"}

----------------------------------------------------------------------------
(* Inputs *)

SeqsUpTo(S, n) == UNION {[1..k -> S] : k \in 0..n}

\* a ping; `time` is the position of the ping in the feed
Pings(i) == [ship_id : ShipIds, latitude : PingCoords, longitude : PingCoords,
             time : {i}]
AisLists == UNION {{a \in [1..k -> UNION {Pings(i) : i \in 1..k}] :
                        \A i \in 1..k : a[i].time = i} : k \in 0..MaxPings}

DetFull == << <<"vessel_id", PyStr("RADAR_001")>>,
              <<"vessel_type", PyStr("Cargo Ship")>>,
              <<"estimated_length_m", PyInt(180)>>,
              <<"estimated_width_m", PyInt(30)>>,
              <<"confidence", PyInt(85)>>,
              <<"relative_position", PyStr("center-left")>> >>
DetSparse == << <<"vessel_id", PyStr("RADAR_002")>> >>
DetNoId == << <<"vessel_type", PyStr("Tanker")>>, <<"confidence", PyInt(90)>> >>
DetectionPool == {DetFull, DetSparse, DetNoId}

\* one scene north-west and one south-east of the origin: with PingCoords each
\* axis has a ping inside the box and a ping exactly on its edge, on either side
Scenes == [latitude : {0}, longitude : {-1}, date : SceneDates]
          \cup [latitude : {-1}, longitude : {0}, date : SceneDates]

\* detections whose fields are all read by find_dark_vessels
DetStrConf == << <<"vessel_id", PyStr("RADAR_003")>>, <<"confidence", PyStr("85")>> >>
HashDetectionPool == {DetFull, DetStrConf}
\* values a field is changed to
ValuePool == {PyStr("85"), PyObj("85")}

ImagePaths == {"data/scene.jpeg", "data/copy.jpeg"}
ImageBytes == {"", "JFIF", "JFIG"}
NoFile == [exists |-> FALSE, bytes |-> ""]

HashScene == [latitude |-> 1, longitude |-> -1, date |-> "2026-02-20"]
HashAis == << [ship_id |-> "SHIP_1000", latitude |-> 1, longitude |-> -2, time |-> 1] >>

----------------------------------------------------------------------------
(* Specification of the fusion step: any inputs, any number of calls *)

NoTimestamp == [datetime_ist |-> "", datetime_utc |-> "", source |-> "", timezone |-> ""]

NoDatetime == [instant |-> 0, offset |-> 0]
NoResponse == [status |-> "none", datetime |-> NoDatetime]

\* no request for the vision service
NoOutcome == [kind |-> "none", value |-> JsonOther]

\* what the vision service does with a request: an error of the API, a text
\* that is no JSON, or a text that is JSON
ElemPool == {JsonDictValue(d) : d \in DetectionPool} \cup {JsonOther}
VisionOutcomes ==
    [kind : {"api_error", "invalid_json"}, value : {JsonOther}]
    \cup [kind : {"json"},
          value : {JsonListValue(e) : e \in SeqsUpTo(ElemPool, MaxDets)} \cup ElemPool]

NoParse == ParseResult("idle", NoFloat, NoFloat, "", "", <<>>)

\* the parts of a file name: each coordinate text with what it is (a run of
\* digits and points or not, a numeral or not, its value in half degrees), the
\* date text with what it is (of the shape dddd-dd-dd or not, a calendar date
\* or not), the letters, the first separator, the extension and what follows
CoordText(text, run, numeral, value) ==
    [text |-> text, run |-> run, numeral |-> numeral, value |-> value]
LatTexts == {CoordText(<<"0">>, TRUE, TRUE, 0),
             CoordText(<<"1", "1", ".", "5">>, TRUE, TRUE, 23),
             CoordText(<<"1", ".", "2", ".", "3">>, TRUE, FALSE, 0),
             CoordText(<<"-", "1", ".", "0">>, FALSE, FALSE, 0)}
LonTexts == {CoordText(<<"0", ".", "0">>, TRUE, TRUE, 0),
             CoordText(<<"6", "6", ".", "5">>, TRUE, TRUE, 133),
             CoordText(<<".">>, TRUE, FALSE, 0)}
DateText(text, shaped, calendar) ==
    [text |-> text, shaped |-> shaped, calendar |-> calendar]
DateTexts ==
    {DateText(<<"2", "0", "2", "6", "-", "0", "2", "-", "2", "0">>, TRUE, TRUE),
     DateText(<<"2", "0", "2", "6", "-", "1", "3", "-", "4", "5">>, TRUE, FALSE),
     DateText(<<"2", "0", "2", "6", "-", "2", "-", "2", "0">>, FALSE, FALSE)}
Extensions == {<<"j", "p", "e", "g">>, <<"j", "p", "g">>, <<"p", "n", "g">>}
NameParts ==
    [lat : LatTexts, lat_dir : {"N", "S", "n"}, sep : {"_", "-"},
     lon : LonTexts, lon_dir : {"E", "W", "X"}, date : DateTexts,
     ext : Extensions, tail : {<<>>, <<"\n">>}]
NoParts == [lat |-> CoordText(<<>>, FALSE, FALSE, 0), lat_dir |-> "", sep |-> "",
            lon |-> CoordText(<<>>, FALSE, FALSE, 0), lon_dir |-> "",
            date |-> DateText(<<>>, FALSE, FALSE), ext |-> <<>>, tail |-> <<>>]

\* the file name put together from its parts
Compose(parts) ==
    parts.lat.text \o <<parts.lat_dir, parts.sep>> \o parts.lon.text
    \o <<parts.lon_dir, "_">> \o parts.date.text \o <<".">> \o parts.ext
    \o parts.tail

DetectOff ==
    /\ api_key = ""
    /\ vision_outcome = NoOutcome
    /\ vision_calls = 0
    /\ detection_source = ""

TimeOff ==
    /\ time_response = NoResponse
    /\ clock_now = 0
    /\ timestamp_status = "idle"
    /\ time_calls = 0

ParseOff ==
    /\ filename = <<>>
    /\ name_parts = NoParts
    /\ parse_result = NoParse

\* the generator of module random is not looked at
RngOff ==
    /\ rng_stream = <<>>
    /\ rng_pos = 0

\* no pipeline run
PipelineOff ==
    /\ pc = "off"
    /\ timestamp_result = NoTimestamp
    /\ reports = {}
    /\ report_id = ""
    /\ DetectOff
    /\ TimeOff
    /\ ParseOff
    /\ RngOff

Instants == {0, 1200}
RemoteResponses ==
    [status : {"unreachable", "malformed"}, datetime : {NoDatetime}]
    \cup [status : {"ok"}, datetime : [instant : Instants, offset : {IST_OFFSET, 0}]]

\* the instants and the UTC offsets (IST, UTC, New York) of the timestamp step
TimeInstants == {0, 600, 1200, 1430}
BodyOffsets == {IST_OFFSET, 0, -300}
AuthorityResponses ==
    [status : TimeFailures, datetime : {NoDatetime}]
    \cup [status : {"ok"}, datetime : [instant : TimeInstants, offset : BodyOffsets]]

NoHash == [evidence_hash |-> "", image_hash |-> "", data_hash |-> "", algorithm |-> ""]

HashIdle ==
    /\ hash_status = "idle"
    /\ hash_result = NoHash
    /\ hash_warning = FALSE
    /\ hash_prev = NoHash
    /\ delta = "none"
    /\ last_delta = "first"

FusionInit ==
    /\ PipelineOff
    /\ image_path = "data/scene.jpeg"
    /\ image_file = [exists |-> TRUE, bytes |-> "JFIF"]
    /\ HashIdle
    /\ ais_data \in AisLists
    /\ radar_detections \in SeqsUpTo(DetectionPool, MaxDets)
    /\ sar_metadata \in Scenes
    /\ fusion_status = "idle"
    /\ ais_ships_in_area = <<>>
    /\ match_outcome = <<>>
    /\ matched_vessels = <<>>
    /\ dark_vessels = <<>>

CallFindDarkVessels ==
    LET candidates == GeoFilter(ais_data, sar_metadata) IN
    \E pick \in [1..Len(radar_detections) -> DrawOutcomes(candidates)] :
        LET r == find_dark_vessels(ais_data, radar_detections, sar_metadata, pick) IN
        /\ fusion_status' = r.status
        /\ ais_ships_in_area' = r.candidates
        /\ match_outcome' = r.outcome
        /\ matched_vessels' = r.matched
        /\ dark_vessels' = r.dark
        /\ UNCHANGED <<ais_data, radar_detections, sar_metadata>>

\* the call of one pipeline run (app.py step 3)
FindDarkVessels ==
    /\ fusion_status = "idle"
    /\ CallFindDarkVessels
    /\ UNCHANGED <<hashVars, pipelineVars>>

\* a further call on the same arguments
FindDarkVesselsAgain ==
    /\ fusion_status # "idle"
    /\ CallFindDarkVessels
    /\ UNCHANGED <<hashVars, pipelineVars>>

FusionNext == FindDarkVessels

SpecFusion == FusionInit /\ [][FusionNext]_vars

FusionRepeatNext == FindDarkVessels \/ FindDarkVesselsAgain

SpecFusionRepeat == FusionInit /\ [][FusionRepeatNext]_vars

----------------------------------------------------------------------------
(* Specification of the hashing step: the evidence of a fusion call that
   returned is hashed, the evidence or the image is changed in one place (or
   only re-represented), and the evidence is hashed again. *)

HashInit ==
    /\ PipelineOff
    /\ image_path = "data/scene.jpeg"
    /\ image_file \in {NoFile, [exists |-> TRUE, bytes |-> "JFIF"],
                       [exists |-> TRUE, bytes |-> ""]}
    /\ HashIdle
    /\ ais_data = HashAis
    /\ sar_metadata = HashScene
    /\ radar_detections \in SeqsUpTo(HashDetectionPool, MaxDets)
    /\ \E pick \in [1..Len(radar_detections) -> DrawOutcomes(GeoFilter(ais_data, sar_metadata))] :
           LET r == find_dark_vessels(ais_data, radar_detections, sar_metadata, pick) IN
           /\ fusion_status = r.status
           /\ ais_ships_in_area = r.candidates
           /\ match_outcome = r.outcome
           /\ matched_vessels = r.matched
           /\ dark_vessels = r.dark

CallHashEvidence ==
    LET r == hash_evidence(image_path, image_file, radar_detections, dark_vessels) IN
    /\ hash_status' = "returned"
    /\ hash_result' = [evidence_hash |-> r.evidence_hash, image_hash |-> r.image_hash,
                       data_hash |-> r.data_hash, algorithm |-> r.algorithm]
    /\ hash_warning' = r.warning
    /\ hash_prev' = hash_result
    /\ last_delta' = IF hash_status = "idle" THEN "first" ELSE delta
    /\ delta' = "none"
    /\ UNCHANGED <<image_path, image_file>>

\* the call of one pipeline run (app.py step 4), and one recomputation
HashEvidence ==
    /\ hash_status = "idle" \/ last_delta = "first"
    /\ CallHashEvidence
    /\ UNCHANGED <<fusionVars, pipelineVars>>

CanChange == hash_status = "returned" /\ delta = "none" /\ last_delta = "first"

SetValue(d, k, v) == [i \in 1..Len(d) |-> IF d[i][1] = k THEN <<k, v>> ELSE d[i]]

\* one field of one detection gets another value
ChangeDetectionField ==
    /\ CanChange
    /\ UNCHANGED pipelineVars
    /\ \E i \in 1..Len(radar_detections) : \E k \in Keys(radar_detections[i]) :
       \E v \in ValuePool :
           /\ v # Item(radar_detections[i], k)
           /\ radar_detections' =
                  [radar_detections EXCEPT ![i] = SetValue(@, k, v)]
    /\ delta' = "field"
    /\ UNCHANGED <<ais_data, sar_metadata, fusion_status, ais_ships_in_area,
                   match_outcome, matched_vessels, dark_vessels>>
    /\ UNCHANGED <<image_path, image_file, hash_status, hash_result, hash_warning,
                   hash_prev, last_delta>>

\* one field of one incident gets another value
ChangeIncidentField ==
    /\ CanChange
    /\ UNCHANGED pipelineVars
    /\ \E i \in 1..Len(dark_vessels) : \E k \in Keys(dark_vessels[i]) :
       \E v \in ValuePool :
           /\ v # Item(dark_vessels[i], k)
           /\ dark_vessels' = [dark_vessels EXCEPT ![i] = SetValue(@, k, v)]
    /\ delta' = "field"
    /\ UNCHANGED <<ais_data, sar_metadata, fusion_status, ais_ships_in_area,
                   match_outcome, matched_vessels, radar_detections>>
    /\ UNCHANGED <<image_path, image_file, hash_status, hash_result, hash_warning,
                   hash_prev, last_delta>>

\* the image file gets other bytes
ChangeImageBytes ==
    /\ CanChange
    /\ UNCHANGED pipelineVars
    /\ image_file.exists
    /\ \E b \in ImageBytes :
           /\ b # image_file.bytes
           /\ image_file' = [exists |-> TRUE, bytes |-> b]
    /\ delta' = "image"
    /\ UNCHANGED fusionVars
    /\ UNCHANGED <<image_path, hash_status, hash_result, hash_warning, hash_prev,
                   last_delta>>

\* the image file is deleted; a deleted zero-length file is told apart
RemoveImage ==
    /\ CanChange
    /\ UNCHANGED pipelineVars
    /\ image_file.exists
    /\ image_file' = NoFile
    /\ delta' = IF image_file.bytes = "" THEN "removed_empty" ELSE "removed"
    /\ UNCHANGED fusionVars
    /\ UNCHANGED <<image_path, hash_status, hash_result, hash_warning, hash_prev,
                   last_delta>>

\* the same image under another path
MoveImage ==
    /\ CanChange
    /\ UNCHANGED pipelineVars
    /\ \E q \in ImagePaths : q # image_path /\ image_path' = q
    /\ delta' = "equal"
    /\ UNCHANGED fusionVars
    /\ UNCHANGED <<image_file, hash_status, hash_result, hash_warning, hash_prev,
                   last_delta>>

\* an equal detection dict whose keys were inserted in another order
ReorderKeys ==
    /\ CanChange
    /\ UNCHANGED pipelineVars
    /\ \E i \in 1..Len(radar_detections) :
           /\ Len(radar_detections[i]) > 1
           /\ radar_detections' =
                  [radar_detections EXCEPT ![i] = Append(Tail(@), Head(@))]
    /\ delta' = "equal"
    /\ UNCHANGED <<ais_data, sar_metadata, fusion_status, ais_ships_in_area,
                   match_outcome, matched_vessels, dark_vessels>>
    /\ UNCHANGED <<image_path, image_file, hash_status, hash_result, hash_warning,
                   hash_prev, last_delta>>

HashNext ==
    \/ HashEvidence
    \/ ChangeDetectionField
    \/ ChangeIncidentField
    \/ ChangeImageBytes
    \/ RemoveImage
    \/ MoveImage
    \/ ReorderKeys

SpecHash == HashInit /\ [][HashNext]_vars

----------------------------------------------------------------------------
(* Specification of the timestamp step: one get_ist_timestamp call, whatever
   the time authority does and whatever the system clock shows. *)

TimestampInit ==
    /\ pc = "off"
    /\ timestamp_result = NoTimestamp
    /\ reports = {}
    /\ report_id = ""
    /\ DetectOff
    /\ ParseOff
    /\ RngOff
    /\ time_response \in AuthorityResponses
    /\ clock_now \in TimeInstants
    /\ timestamp_status = "idle"
    /\ time_calls = 0
    /\ image_path = "data/scene.jpeg"
    /\ image_file = [exists |-> TRUE, bytes |-> "JFIF"]
    /\ HashIdle
    /\ ais_data = <<>>
    /\ radar_detections = <<>>
    /\ sar_metadata = HashScene
    /\ fusion_status = "idle"
    /\ ais_ships_in_area = <<>>
    /\ match_outcome = <<>>
    /\ matched_vessels = <<>>
    /\ dark_vessels = <<>>

\* the except clause catches every Exception of the try block and the handler
\* raises none, so the call returns
CallGetIstTimestamp ==
    /\ timestamp_result' = get_ist_timestamp(time_response, clock_now)
    /\ timestamp_status' = "returned"
    /\ time_calls' = time_calls + time_requests(time_response)
    /\ UNCHANGED <<time_response, clock_now>>

GetIstTimestamp ==
    /\ timestamp_status = "idle"
    /\ CallGetIstTimestamp
    /\ UNCHANGED <<fusionVars, hashVars, pc, reports, report_id, detectVars, parseVars, rngVars>>

TimestampNext == GetIstTimestamp

SpecTimestamp == TimestampInit /\ [][TimestampNext]_vars

----------------------------------------------------------------------------
(* Specification of the file name parser: one _parse_filename call on a name
   put together from any parts. *)

ParseInit ==
    /\ pc = "off"
    /\ timestamp_result = NoTimestamp
    /\ reports = {}
    /\ report_id = ""
    /\ DetectOff
    /\ TimeOff
    /\ RngOff
    /\ name_parts \in NameParts
    /\ filename = Compose(name_parts)
    /\ parse_result = NoParse
    /\ image_path = "data/scene.jpeg"
    /\ image_file = [exists |-> TRUE, bytes |-> "JFIF"]
    /\ HashIdle
    /\ ais_data = <<>>
    /\ radar_detections = <<>>
    /\ sar_metadata = HashScene
    /\ fusion_status = "idle"
    /\ ais_ships_in_area = <<>>
    /\ match_outcome = <<>>
    /\ matched_vessels = <<>>
    /\ dark_vessels = <<>>

ParseFilename ==
    /\ parse_result.status = "idle"
    /\ filename # <<>>
    /\ parse_result' = parse_filename(filename)
    /\ UNCHANGED <<filename, name_parts>>
    /\ UNCHANGED <<fusionVars, hashVars, pc, timestamp_result, reports, report_id,
                   detectVars, timeVars, rngVars>>

ParseNext == ParseFilename

SpecParse == ParseInit /\ [][ParseNext]_vars

----------------------------------------------------------------------------
(* Specification of the calls of one process that use module random:
   find_dark_vessels of one invocation, on the same arguments each time, and
   in any order with it the AIS source, the detector fallback and the report
   generator of this or of other invocations. *)

TwoShips == << [ship_id |-> "SHIP_1000", latitude |-> 1, longitude |-> -2, time |-> 1],
               [ship_id |-> "SHIP_1001", latitude |-> 2, longitude |-> -1, time |-> 2] >>

SharedInit ==
    /\ pc = "off"
    /\ timestamp_result = NoTimestamp
    /\ reports = {}
    /\ report_id = ""
    /\ DetectOff
    /\ TimeOff
    /\ ParseOff
    /\ rng_stream \in Streams
    /\ rng_pos = 0
    /\ image_path = "data/scene.jpeg"
    /\ image_file = [exists |-> TRUE, bytes |-> "JFIF"]
    /\ HashIdle
    /\ ais_data \in {HashAis, TwoShips}
    /\ sar_metadata = HashScene
    /\ radar_detections \in SeqsUpTo(HashDetectionPool, MaxDets)
    /\ fusion_status = "idle"
    /\ ais_ships_in_area = <<>>
    /\ match_outcome = <<>>
    /\ matched_vessels = <<>>
    /\ dark_vessels = <<>>

\* a call that consumes n outputs of the generator
Consume(n) ==
    /\ rng_pos' = (rng_pos + n) % StreamLen
    /\ UNCHANGED rng_stream

\* find_dark_vessels of the invocation
InvokeFindDarkVessels ==
    /\ LET c == find_dark_vessels_at(ais_data, radar_detections, sar_metadata,
                                     rng_stream, rng_pos)
       IN /\ fusion_status' = c.result.status
          /\ ais_ships_in_area' = c.result.candidates
          /\ match_outcome' = c.result.outcome
          /\ matched_vessels' = c.result.matched
          /\ dark_vessels' = c.result.dark
          /\ Consume(c.pos - rng_pos)
    /\ UNCHANGED <<ais_data, radar_detections, sar_metadata>>
    /\ UNCHANGED <<hashVars, pc, timestamp_result, reports, report_id, detectVars,
                   timeVars, parseVars>>

\* get_ais_data(): random.randint, random.sample and a random.uniform per
\* coordinate; its list goes to another invocation
GetAisData ==
    /\ \E n \in 1..(StreamLen - 1) : Consume(n)
    /\ UNCHANGED <<fusionVars, hashVars, pc, timestamp_result, reports, report_id,
                   detectVars, timeVars, parseVars>>

\* fallback_detections(): random.randint and five draws per detection; its
\* list is the detection list of the invocation that starts with it
FallbackDetections ==
    /\ \E n \in 1..(StreamLen - 1) : Consume(n)
    /\ \E fallback \in FallbackDraws : radar_detections' = fallback
    /\ fusion_status' = "idle"
    /\ ais_ships_in_area' = <<>>
    /\ match_outcome' = <<>>
    /\ matched_vessels' = <<>>
    /\ dark_vessels' = <<>>
    /\ UNCHANGED <<ais_data, sar_metadata>>
    /\ UNCHANGED <<hashVars, pc, timestamp_result, reports, report_id,
                   detectVars, timeVars, parseVars>>

\* generate_report(): the random.choices of the report id and the TX-ID
GenerateReport ==
    /\ \E n \in 1..(StreamLen - 1) : \E id \in ReportIds :
           /\ Consume(n)
           /\ reports' = reports \cup {id}
    /\ UNCHANGED <<fusionVars, hashVars, pc, timestamp_result, report_id,
                   detectVars, timeVars, parseVars>>

SharedNext ==
    \/ InvokeFindDarkVessels
    \/ GetAisData
    \/ FallbackDetections
    \/ GenerateReport

SpecShared == SharedInit /\ [][SharedNext]_vars

----------------------------------------------------------------------------
(* Specification of a pipeline run (app.py, steps 2 to 6): the scene and the
   AIS pings have been collected; the image file may have disappeared since. *)

Init ==
    /\ pc = "detect"
    /\ timestamp_result = NoTimestamp
    /\ reports \in {{}, {"GMIE-2026-00000"}}
    /\ report_id = ""
    /\ api_key \in {"", "AIzaSy"}
    /\ vision_outcome = NoOutcome
    /\ vision_calls = 0
    /\ detection_source = ""
    /\ TimeOff
    /\ ParseOff
    /\ RngOff
    /\ image_path = "data/scene.jpeg"
    /\ image_file \in {NoFile, [exists |-> TRUE, bytes |-> "JFIF"]}
    /\ HashIdle
    /\ ais_data \in {<<>>, HashAis}
    /\ sar_metadata = HashScene
    /\ radar_detections = <<>>
    /\ fusion_status = "idle"
    /\ ais_ships_in_area = <<>>
    /\ match_outcome = <<>>
    /\ matched_vessels = <<>>
    /\ dark_vessels = <<>>

\* step 2: an exception of detect_vessels is caught and answered by
\* fallback_detections()
StepDetect ==
    /\ pc = "detect"
    /\ \E outcome \in VisionOutcomes : \E fallback \in FallbackDraws :
           LET r == detect_vessels(api_key, image_file, outcome, fallback) IN
           /\ vision_outcome' = IF r.calls = 0 THEN NoOutcome ELSE outcome
           /\ vision_calls' = vision_calls + r.calls
           /\ radar_detections' = IF r.status = "returned" THEN r.detections
                                  ELSE fallback
           /\ detection_source' = IF r.status # "returned" THEN "Simulated (API Error)"
                                  ELSE IF api_key # "" THEN "Gemini AI"
                                  ELSE "Simulated (No API Key)"
    /\ pc' = "fusion"
    /\ UNCHANGED <<ais_data, sar_metadata, fusion_status, ais_ships_in_area,
                   match_outcome, matched_vessels, dark_vessels>>
    /\ UNCHANGED <<hashVars, timestamp_result, reports, report_id, api_key,
                   timeVars, parseVars, rngVars>>

\* variant: a ping that was matched is taken out of the AIS list, so that no
\* later detection is matched with it
StepFusionConsuming ==
    /\ pc = "fusion"
    /\ LET candidates == GeoFilter(ais_data, sar_metadata) IN
       \E pick \in [1..Len(radar_detections) -> DrawOutcomes(candidates)] :
           LET r == find_dark_vessels(ais_data, radar_detections, sar_metadata, pick) IN
           /\ fusion_status' = r.status
           /\ ais_ships_in_area' = r.candidates
           /\ match_outcome' = r.outcome
           /\ matched_vessels' = r.matched
           /\ dark_vessels' = r.dark
           /\ ais_data' = SelectSeq(ais_data, LAMBDA p :
                              \A i \in 1..Len(r.matched) : r.matched[i].ais # p)
           /\ UNCHANGED <<radar_detections, sar_metadata>>
    /\ pc' = IF fusion_status' = "returned" THEN "hash" ELSE "aborted"
    /\ UNCHANGED <<hashVars, timestamp_result, reports, report_id, detectVars,
                   timeVars, parseVars, rngVars>>

\* step 3; an exception of find_dark_vessels ends the run
StepFusion ==
    /\ pc = "fusion"
    /\ CallFindDarkVessels
    /\ pc' = IF fusion_status' = "returned" THEN "hash" ELSE "aborted"
    /\ UNCHANGED <<hashVars, timestamp_result, reports, report_id, detectVars,
                   timeVars, parseVars, rngVars>>

\* step 4
StepHash ==
    /\ pc = "hash"
    /\ CallHashEvidence
    /\ pc' = "timestamp"
    /\ UNCHANGED <<fusionVars, timestamp_result, reports, report_id, detectVars,
                   timeVars, parseVars, rngVars>>

\* step 5
StepTimestamp ==
    /\ pc = "timestamp"
    /\ \E response \in RemoteResponses : \E now \in Instants :
           /\ time_response' = response
           /\ clock_now' = now
           /\ timestamp_result' = get_ist_timestamp(response, now)
           /\ timestamp_status' = "returned"
           /\ time_calls' = time_calls + time_requests(response)
    /\ pc' = "report"
    /\ UNCHANGED <<fusionVars, hashVars, reports, report_id, detectVars, parseVars, rngVars>>

\* variant: the report is generated as soon as the hash set exists
StepReportEarly ==
    /\ pc \in {"timestamp", "report"}
    /\ \E id \in ReportIds :
           /\ report_id' = id
           /\ reports' = reports \cup {id}
    /\ pc' = "done"
    /\ UNCHANGED <<fusionVars, hashVars, timestamp_result, detectVars, timeVars,
                   parseVars, rngVars>>

\* step 6: generate_report writes REPORTS_DIR/<report_id>.md
StepReport ==
    /\ pc = "report"
    /\ \E id \in ReportIds :
           /\ report_id' = id
           /\ reports' = reports \cup {id}
    /\ pc' = "done"
    /\ UNCHANGED <<fusionVars, hashVars, timestamp_result, detectVars, timeVars,
                   parseVars, rngVars>>

Next == StepDetect \/ StepFusion \/ StepHash \/ StepTimestamp \/ StepReport

Spec == Init /\ [][Next]_vars

----------------------------------------------------------------------------
(* Specification of a pipeline run from step 3 on in which find_dark_vessels
   is taken statement by statement: step 1 (the loop over ais_data), then for
   every detection the inner loop over the candidates and the `if not
   matched` statement, then the return. *)

SequenceInit ==
    /\ pc = "geofilter"
    /\ timestamp_result = NoTimestamp
    /\ reports \in {{}, {"GMIE-2026-00000"}}
    /\ report_id = ""
    /\ DetectOff
    /\ TimeOff
    /\ ParseOff
    /\ RngOff
    /\ image_path = "data/scene.jpeg"
    /\ image_file \in {NoFile, [exists |-> TRUE, bytes |-> "JFIF"]}
    /\ HashIdle
    /\ ais_data \in {<<>>, HashAis}
    /\ sar_metadata = HashScene
    /\ radar_detections \in SeqsUpTo(DetectionPool, MaxDets)
    /\ fusion_status = "idle"
    /\ ais_ships_in_area = <<>>
    /\ match_outcome = <<>>
    /\ matched_vessels = <<>>
    /\ dark_vessels = <<>>

\* an exception leaves find_dark_vessels: its locals are gone and the run ends
RaiseKeyError ==
    /\ fusion_status' = "KeyError"
    /\ match_outcome' = <<>>
    /\ matched_vessels' = <<>>
    /\ dark_vessels' = <<>>
    /\ pc' = "aborted"

\* fusion.py lines 30-47
LoopGeoFilter ==
    /\ pc = "geofilter"
    /\ ais_ships_in_area' = GeoFilter(ais_data, sar_metadata)
    /\ fusion_status' = "running"
    /\ pc' = IF radar_detections = <<>> THEN "return" ELSE "match"
    /\ UNCHANGED <<ais_data, radar_detections, sar_metadata, match_outcome,
                   matched_vessels, dark_vessels>>
    /\ UNCHANGED <<hashVars, timestamp_result, reports, report_id, detectVars,
                   timeVars, parseVars, rngVars>>

\* fusion.py lines 49-64, for the detection after the ones that have an
\* outcome: the inner loop ends at the first accepted candidate p (0 = none);
\* the print of line 63 reads detection['vessel_id']
LoopMatch ==
    /\ pc = "match"
    /\ LET detection == radar_detections[Len(match_outcome) + 1] IN
       \E p \in DrawOutcomes(ais_ships_in_area) :
           IF p # 0 /\ ~HasKey(detection, "vessel_id")
           THEN RaiseKeyError
           ELSE /\ match_outcome' = Append(match_outcome, p)
                /\ matched_vessels' =
                       IF p = 0 THEN matched_vessels
                       ELSE Append(matched_vessels,
                                   MatchedVessel(detection, ais_ships_in_area[p]))
                /\ pc' = "classify"
                /\ UNCHANGED <<fusion_status, dark_vessels>>
    /\ UNCHANGED <<ais_data, radar_detections, sar_metadata, ais_ships_in_area>>
    /\ UNCHANGED <<hashVars, timestamp_result, reports, report_id, detectVars,
                   timeVars, parseVars, rngVars>>

\* fusion.py lines 66-89, for the detection that got its outcome last
LoopClassify ==
    /\ pc = "classify"
    /\ LET i == Len(match_outcome)
           detection == radar_detections[i]
       IN IF match_outcome[i] = 0 /\ ~HasKey(detection, "vessel_id")
          THEN RaiseKeyError
          ELSE /\ dark_vessels' =
                      IF match_outcome[i] # 0 THEN dark_vessels
                      ELSE Append(dark_vessels, DarkVessel(detection, sar_metadata))
               /\ pc' = IF i = Len(radar_detections) THEN "return" ELSE "match"
               /\ UNCHANGED <<fusion_status, match_outcome, matched_vessels>>
    /\ UNCHANGED <<ais_data, radar_detections, sar_metadata, ais_ships_in_area>>
    /\ UNCHANGED <<hashVars, timestamp_result, reports, report_id, detectVars,
                   timeVars, parseVars, rngVars>>

\* fusion.py lines 92-95 and the assignment of app.py line 358
LoopReturn ==
    /\ pc = "return"
    /\ fusion_status' = "returned"
    /\ pc' = "hash"
    /\ UNCHANGED <<ais_data, radar_detections, sar_metadata, ais_ships_in_area,
                   match_outcome, matched_vessels, dark_vessels>>
    /\ UNCHANGED <<hashVars, timestamp_result, reports, report_id, detectVars,
                   timeVars, parseVars, rngVars>>

SequenceNext ==
    \/ LoopGeoFilter
    \/ LoopMatch
    \/ LoopClassify
    \/ LoopReturn
    \/ StepHash
    \/ StepTimestamp
    \/ StepReport

SpecSequence == SequenceInit /\ [][SequenceNext]_vars

----------------------------------------------------------------------------
(* Specification of the scene of a selected image: step 1 parses the file
   name and builds the scene descriptor, step 3 writes the incidents. *)

\* "".join of the characters
RECURSIVE Concat(_)
Concat(chars) == IF chars = <<>> THEN "" ELSE Head(chars) \o Concat(Tail(chars))

\* the number a float of the parser compares and formats as; -0.0 and 0.0 are
\* the same number, the sign of a zero shows only in str()
FloatValue(f) == IF f.neg THEN -f.mag ELSE f.mag

\* the entries of sar_metadata that find_dark_vessels reads
SceneOf(meta) ==
    [latitude |-> FloatValue(meta.latitude),
     longitude |-> FloatValue(meta.longitude),
     date |-> Concat(meta.date)]

SceneInit ==
    /\ pc = "collect"
    /\ timestamp_result = NoTimestamp
    /\ reports = {}
    /\ report_id = ""
    /\ DetectOff
    /\ TimeOff
    /\ RngOff
    /\ name_parts \in NameParts
    /\ filename = Compose(name_parts)
    /\ parse_result = NoParse
    /\ image_path = "data/scene.jpeg"
    /\ image_file = [exists |-> TRUE, bytes |-> "JFIF"]
    /\ HashIdle
    /\ ais_data \in {<<>>, HashAis}
    /\ radar_detections = <<DetFull>>
    /\ sar_metadata = HashScene
    /\ fusion_status = "idle"
    /\ ais_ships_in_area = <<>>
    /\ match_outcome = <<>>
    /\ matched_vessels = <<>>
    /\ dark_vessels = <<>>

\* step 1 for a selected image: without a descriptor (None is subscripted, or
\* float raised) the run ends
StepCollect ==
    /\ pc = "collect"
    /\ parse_result' = parse_filename(filename)
    /\ IF parse_result'.status = "dict"
       THEN sar_metadata' = SceneOf(parse_result') /\ pc' = "fusion"
       ELSE sar_metadata' = sar_metadata /\ pc' = "aborted"
    /\ UNCHANGED <<ais_data, radar_detections, fusion_status, ais_ships_in_area,
                   match_outcome, matched_vessels, dark_vessels>>
    /\ UNCHANGED <<hashVars, timestamp_result, reports, report_id, detectVars,
                   timeVars, filename, name_parts, rngVars>>

SceneNext == StepCollect \/ StepFusion

SpecScene == SceneInit /\ [][SceneNext]_vars

----------------------------------------------------------------------------
(* Properties of the fusion step *)

Indices(q) == [i \in 1..Len(q) |-> i]
\* indices of the detections of the latest call without / with a match, in order
UnmatchedIdx == SelectSeq(Indices(match_outcome), LAMBDA i : match_outcome[i] = 0)
MatchedIdx == SelectSeq(Indices(match_outcome), LAMBDA i : match_outcome[i] # 0)

\* every detection is a RadarDetection of the data model: it carries its identifier
WellFormed(dets) == \A i \in 1..Len(dets) : HasKey(dets[i], "vessel_id")

\* the bounding box, written out
InBox(p, sar) ==
    /\ p.latitude - sar.latitude < GEO_THRESHOLD
    /\ sar.latitude - p.latitude < GEO_THRESHOLD
    /\ p.longitude - sar.longitude < GEO_THRESHOLD
    /\ sar.longitude - p.longitude < GEO_THRESHOLD

OnBoxEdge(p, sar) ==
    \/ Abs(p.latitude - sar.latitude) = GEO_THRESHOLD
    \/ Abs(p.longitude - sar.longitude) = GEO_THRESHOLD

\* C1: a second call of find_dark_vessels on the same AIS list, detection list
\* and scene returns the match/no-match assignment and the incident list of the
\* first call.
C1_Deterministic ==
    [][(fusion_status # "idle" /\ fusion_status' # "idle")
        => /\ fusion_status' = fusion_status
           /\ match_outcome' = match_outcome
           /\ dark_vessels' = dark_vessels]_vars

\* C2: in a call that returned, every detection has exactly one outcome (one
\* candidate ping or none); the incidents are exactly the unmatched detections,
\* one each, the matches exactly the matched ones, so that matched + incidents
\* = detections.
C2_OneOutcomeEach ==
    fusion_status = "returned" =>
        /\ Len(match_outcome) = Len(radar_detections)
        /\ \A i \in 1..Len(match_outcome) :
               match_outcome[i] \in 0..Len(ais_ships_in_area)
        /\ Len(matched_vessels) + Len(dark_vessels) = Len(radar_detections)
        /\ Len(dark_vessels) = Len(UnmatchedIdx)
        /\ \A k \in 1..Len(dark_vessels) :
               k <= Len(UnmatchedIdx) =>
                   Item(dark_vessels[k], "radar_id")
                       = Item(radar_detections[UnmatchedIdx[k]], "vessel_id")
        /\ Len(matched_vessels) = Len(MatchedIdx)
        /\ \A k \in 1..Len(matched_vessels) :
               k <= Len(MatchedIdx) =>
                   /\ matched_vessels[k].radar = radar_detections[MatchedIdx[k]]
                   /\ matched_vessels[k].ais
                          = ais_ships_in_area[match_outcome[MatchedIdx[k]]]

C2_Witness ==
    /\ fusion_status = "returned"
    /\ Len(radar_detections) = 2
    /\ Len(matched_vessels) = 1
    /\ Len(dark_vessels) = 1

\* C3: the candidate list holds no two entries of one ship, and every entry is
\* strictly inside the threshold on each axis (a ping at the threshold on either
\* axis is not listed).
C3_GeoFilterSound ==
    fusion_status # "idle" =>
        /\ \A j, k \in 1..Len(ais_ships_in_area) :
               ais_ships_in_area[j].ship_id = ais_ships_in_area[k].ship_id => j = k
        /\ \A k \in 1..Len(ais_ships_in_area) :
               /\ Abs(ais_ships_in_area[k].latitude - sar_metadata.latitude)
                      < GEO_THRESHOLD
               /\ Abs(ais_ships_in_area[k].longitude - sar_metadata.longitude)
                      < GEO_THRESHOLD
        /\ \A i \in 1..Len(ais_data) :
               OnBoxEdge(ais_data[i], sar_metadata) =>
                   \A k \in 1..Len(ais_ships_in_area) : ais_ships_in_area[k] # ais_data[i]

\* a ping at the threshold on one axis only is dropped, a ping inside is kept
C3_Witness ==
    /\ fusion_status # "idle"
    /\ Len(ais_data) = 2
    /\ Len(ais_ships_in_area) = 1
    /\ \E i \in 1..Len(ais_data) :
           /\ Abs(ais_data[i].latitude - sar_metadata.latitude) = GEO_THRESHOLD
           /\ Abs(ais_data[i].longitude - sar_metadata.longitude) < GEO_THRESHOLD
           /\ ais_data[i].ship_id = ais_ships_in_area[1].ship_id

\* position in ais_data of the first ping of `ship` inside the box
FirstInBox(ship) ==
    CHOOSE i \in 1..Len(ais_data) :
        /\ ais_data[i].ship_id = ship /\ InBox(ais_data[i], sar_metadata)
        /\ \A j \in 1..(i - 1) :
               ~(ais_data[j].ship_id = ship /\ InBox(ais_data[j], sar_metadata))

\* C4: every ship with a ping inside the box has exactly one entry in the
\* candidate list, that entry is its first ping inside the box, ships without
\* such a ping have none, and the entries are in input order.
C4_GeoFilterComplete ==
    fusion_status # "idle" =>
        /\ \A ship \in ShipIds :
               LET entries == {k \in 1..Len(ais_ships_in_area) :
                                   ais_ships_in_area[k].ship_id = ship}
               IN IF \E i \in 1..Len(ais_data) :
                        ais_data[i].ship_id = ship /\ InBox(ais_data[i], sar_metadata)
                  THEN /\ Cardinality(entries) = 1
                       /\ \A k \in entries :
                              ais_ships_in_area[k] = ais_data[FirstInBox(ship)]
                  ELSE entries = {}
        /\ \A j, k \in 1..Len(ais_ships_in_area) :
               j < k => ais_ships_in_area[j].time < ais_ships_in_area[k].time

\* two pings of one ship inside the box: the first one is the entry
C4_Witness ==
    /\ fusion_status # "idle"
    /\ Len(ais_data) = 2
    /\ ais_data[1].ship_id = ais_data[2].ship_id
    /\ InBox(ais_data[1], sar_metadata)
    /\ InBox(ais_data[2], sar_metadata)
    /\ ais_ships_in_area = <<ais_data[1]>>

\* C5: with an empty candidate list and a non-empty detection list, every
\* detection is unmatched and there are as many incidents as detections.
C5_NoCandidatesAllDark ==
    (/\ fusion_status # "idle"
     /\ ais_ships_in_area = <<>>
     /\ radar_detections # <<>>
     /\ WellFormed(radar_detections))
    => /\ fusion_status = "returned"
       /\ matched_vessels = <<>>
       /\ Len(match_outcome) = Len(radar_detections)
       /\ \A i \in 1..Len(match_outcome) : match_outcome[i] = 0
       /\ Len(dark_vessels) = Len(radar_detections)

\* pings were received, none inside the box
C5_Witness ==
    /\ fusion_status = "returned"
    /\ ais_data # <<>>
    /\ ais_ships_in_area = <<>>
    /\ Len(radar_detections) = 2
    /\ Len(dark_vessels) = 2

ShipOrder == <<"SHIP_1000", "SHIP_1001">>
ShipRank(id) == CHOOSE r \in 1..Len(ShipOrder) : ShipOrder[r] = id
Offset(p, sar) == Abs(p.latitude - sar.latitude) + Abs(p.longitude - sar.longitude)
\* p is preferred to q by the tie-break policy
Preferred(p, q, sar) ==
    \/ Offset(p, sar) < Offset(q, sar)
    \/ Offset(p, sar) = Offset(q, sar) /\ ShipRank(p.ship_id) <= ShipRank(q.ship_id)

\* C6: with more than one candidate, a matched detection is matched to the
\* candidate of minimum combined offset from the scene centre, the smallest
\* ship identifier among equals.
C6_TieBreakPolicy ==
    (fusion_status = "returned" /\ Len(ais_ships_in_area) > 1) =>
        \A k \in 1..Len(matched_vessels) :
            \A j \in 1..Len(ais_ships_in_area) :
                Preferred(matched_vessels[k].ais, ais_ships_in_area[j], sar_metadata)


\* C17: the incidents are in the order of the unmatched detections they were
\* made from: the k-th incident is the one of the k-th unmatched detection of
\* the input list, so of two incidents the one of the earlier detection comes
\* first.
C17_OrderPreserved ==
    fusion_status = "returned" =>
        /\ Len(dark_vessels) = Len(UnmatchedIdx)
        /\ \A j, k \in 1..Len(dark_vessels) :
               (j < k /\ k <= Len(UnmatchedIdx)) =>
                   /\ UnmatchedIdx[j] < UnmatchedIdx[k]
                   /\ Item(dark_vessels[j], "radar_id")
                          = Item(radar_detections[UnmatchedIdx[j]], "vessel_id")
                   /\ Item(dark_vessels[k], "radar_id")
                          = Item(radar_detections[UnmatchedIdx[k]], "vessel_id")

\* two unmatched detections with different identifiers, although a candidate
\* was in the area
C17_Witness ==
    /\ fusion_status = "returned"
    /\ ais_ships_in_area # <<>>
    /\ Len(dark_vessels) = 2
    /\ Item(dark_vessels[1], "radar_id") # Item(dark_vessels[2], "radar_id")
    /\ Item(dark_vessels[1], "radar_id") = Item(radar_detections[1], "vessel_id")

\* the optional fields of a detection and the value an incident has for an
\* absent one
OptionalDefaults ==
    << <<"vessel_type", PyStr("Unknown")>>,
       <<"estimated_length_m", PyInt(0)>>,
       <<"estimated_width_m", PyInt(0)>>,
       <<"confidence", PyInt(0)>>,
       <<"relative_position", PyStr("unknown")>> >>

\* the narrative of the two scenes, written out
ExpectedNarrative(sar) ==
    "Vessel detected via SAR at "
    \o (IF sar.latitude = 0 /\ sar.longitude = -1 THEN "0.00000degN, 0.50000degW"
        ELSE IF sar.latitude = -1 /\ sar.longitude = 0 THEN "0.50000degS, 0.00000degE"
        ELSE "?")
    \o " on " \o sar.date
    \o ". No AIS transponder signal was received from this location, "
    \o "creating a 'Dark Period' in protected waters."

\* C18: every incident copies the identifier of its detection and its type,
\* length, width, confidence and relative position (the fixed default where
\* the detection has none), carries the scene's latitude, longitude and date,
\* the one status label and the one violation-type string; its narrative is
\* the text of the scene's coordinates and date, the same for every incident.
C18_IncidentFields ==
    fusion_status = "returned" =>
        \A k \in 1..Len(dark_vessels) :
            k <= Len(UnmatchedIdx) =>
                LET incident == dark_vessels[k]
                    detection == radar_detections[UnmatchedIdx[k]]
                IN /\ Keys(incident)
                          = {"radar_id", "vessel_type", "estimated_length_m",
                             "estimated_width_m", "confidence", "relative_position",
                             "sar_latitude", "sar_longitude", "sar_date", "ais_status",
                             "violation_type", "behavioral_anomaly"}
                   /\ Item(incident, "radar_id") = Item(detection, "vessel_id")
                   /\ \A f \in 1..Len(OptionalDefaults) :
                          Item(incident, OptionalDefaults[f][1])
                              = IF HasKey(detection, OptionalDefaults[f][1])
                                THEN Item(detection, OptionalDefaults[f][1])
                                ELSE OptionalDefaults[f][2]
                   /\ Item(incident, "sar_latitude")
                          = PyFloat(FloatStr(sar_metadata.latitude))
                   /\ Item(incident, "sar_longitude")
                          = PyFloat(FloatStr(sar_metadata.longitude))
                   /\ Item(incident, "sar_date") = PyStr(sar_metadata.date)
                   /\ Item(incident, "ais_status") = PyStr("NO SIGNAL DETECTED")
                   /\ Item(incident, "violation_type")
                          = PyStr("AIS Transponder Disabled - Unauthorized Dark Operation")
                   /\ Item(incident, "behavioral_anomaly")
                          = PyStr(ExpectedNarrative(sar_metadata))

\* an incident of a detection with every field and one of a detection with the
\* identifier only, in the southern scene
C18_Witness ==
    /\ fusion_status = "returned"
    /\ sar_metadata.latitude = -1
    /\ Len(dark_vessels) = 2
    /\ Item(dark_vessels[1], "vessel_type") = PyStr("Cargo Ship")
    /\ Item(dark_vessels[1], "estimated_width_m") = PyInt(30)
    /\ Item(dark_vessels[2], "vessel_type") = PyStr("Unknown")
    /\ Item(dark_vessels[2], "relative_position") = PyStr("unknown")
    /\ Item(dark_vessels[1], "behavioral_anomaly")
           = Item(dark_vessels[2], "behavioral_anomaly")

----------------------------------------------------------------------------
(* Properties of the hashing step *)

\* C7: a second hash_evidence call on the same image content, an equal
\* detection list and an equal incident list returns the first call's
\* evidence_hash, image_hash and data_hash, whatever the image path and the
\* order in which the dicts' keys were inserted.
C7_HashDeterministic ==
    (hash_status = "returned" /\ last_delta \in {"none", "equal"}) =>
        /\ hash_result.evidence_hash = hash_prev.evidence_hash
        /\ hash_result.image_hash = hash_prev.image_hash
        /\ hash_result.data_hash = hash_prev.data_hash

C7_Witness ==
    /\ hash_status = "returned"
    /\ last_delta = "equal"
    /\ hash_prev # NoHash
    /\ \E i \in 1..Len(radar_detections) :
           Len(radar_detections[i]) > 1 /\ radar_detections[i][1][1] # "vessel_id"

\* C8: after one field of one detection or incident got another value, the
\* image being the same, data_hash and evidence_hash differ from the ones
\* before and image_hash does not.
C8_DataSensitive ==
    (hash_status = "returned" /\ last_delta = "field") =>
        /\ hash_result.data_hash # hash_prev.data_hash
        /\ hash_result.evidence_hash # hash_prev.evidence_hash
        /\ hash_result.image_hash = hash_prev.image_hash

\* C9: after the image bytes changed, the lists being the same, image_hash and
\* evidence_hash differ from the ones before and data_hash does not.
C9_ImageSensitive ==
    (hash_status = "returned" /\ last_delta = "image") =>
        /\ hash_result.image_hash # hash_prev.image_hash
        /\ hash_result.evidence_hash # hash_prev.evidence_hash
        /\ hash_result.data_hash = hash_prev.data_hash

C9_Witness ==
    /\ hash_status = "returned"
    /\ last_delta = "image"
    /\ hash_prev # NoHash
    /\ radar_detections # <<>>

\* C10: when the image file does not exist, hash_evidence returns (no error)
\* after printing the warning, image_hash is the digest of the empty byte
\* sequence, data_hash and evidence_hash are those of the data, and the run is
\* not ended by the hashing step: it is ended only by an error of the fusion step,
\* before any hashing; after hashing the timestamp step and then the report step
\* can be taken, and a finished run has its timestamp record and its report.
MissingImageRun ==
    pc \in {"hash", "timestamp", "report", "done"} /\ ~image_file.exists

C10_MissingImage ==
    /\ (MissingImageRun /\ pc # "hash") =>
           /\ hash_status = "returned"
           /\ hash_warning
           /\ hash_result.image_hash = "sha256()"
           /\ hash_result.data_hash
                  = "sha256(" \o json_dumps(radar_detections, dark_vessels) \o ")"
           /\ hash_result.evidence_hash = hash_result.data_hash
           /\ hash_result.algorithm = "SHA-256"
    /\ pc = "aborted" => (hash_status = "idle" /\ fusion_status = "KeyError")
    /\ (MissingImageRun /\ pc = "timestamp") => ENABLED StepTimestamp
    /\ (MissingImageRun /\ pc = "report") =>
           (timestamp_result # NoTimestamp /\ ENABLED StepReport)
    /\ (MissingImageRun /\ pc = "done") =>
           (timestamp_result # NoTimestamp /\ report_id \in reports)

C10_Witness ==
    /\ pc = "done"
    /\ ~image_file.exists
    /\ hash_warning
    /\ hash_result.image_hash = "sha256()"
    /\ radar_detections # <<>>
    /\ timestamp_result # NoTimestamp
    /\ report_id \in reports

\* C15: evidence_hash is the digest of the image bytes (none when the file is
\* missing) followed by the data bytes, fed to one hash instance in that order;
\* the data bytes are the ones data_hash is the digest of, and evidence_hash is
\* not the digest of image_hash followed by data_hash.
C15_EvidenceHashComposition ==
    (hash_status = "returned" /\ delta = "none") =>
        LET data == json_dumps(radar_detections, dark_vessels)
            image == IF image_file.exists THEN image_file.bytes ELSE ""
        IN /\ hash_result.image_hash = "sha256(" \o image \o ")"
           /\ hash_result.data_hash = "sha256(" \o data \o ")"
           /\ hash_result.evidence_hash = "sha256(" \o image \o data \o ")"
           /\ hash_result.evidence_hash
                  # "sha256(" \o hash_result.image_hash
                              \o hash_result.data_hash \o ")"

C15_Witness ==
    /\ hash_status = "returned"
    /\ delta = "none"
    /\ image_file.exists
    /\ image_file.bytes = "JFIG"
    /\ dark_vessels # <<>>
    /\ hash_result.evidence_hash # hash_result.data_hash
    /\ hash_result.evidence_hash # hash_result.image_hash

\* the text of one value: a number by its repr, a string quoted, any other
\* object as the quoted text str gives
CanonValue(v) == IF v.t \in {"int", "float"} THEN v.s ELSE "\"" \o v.s \o "\""

\* the members of dict d from the r-th key of the ascending key order on, each
\* as "key"<colon>value, with <comma> between two members
RECURSIVE CanonMembers(_, _, _, _)
CanonMembers(d, r, comma, colon) ==
    IF r > Len(KeyOrder) THEN ""
    ELSE LET rest == CanonMembers(d, r + 1, comma, colon) IN
         IF ~HasKey(d, KeyOrder[r]) THEN rest
         ELSE "\"" \o KeyOrder[r] \o "\"" \o colon \o CanonValue(Item(d, KeyOrder[r]))
              \o (IF rest = "" THEN "" ELSE comma \o rest)

RECURSIVE CanonElems(_, _, _, _)
CanonElems(l, i, comma, colon) ==
    IF i > Len(l) THEN ""
    ELSE "{" \o CanonMembers(l[i], 1, comma, colon) \o "}"
         \o (IF i = Len(l) THEN "" ELSE comma \o CanonElems(l, i + 1, comma, colon))

\* the object {"detections": ..., "dark_vessels": ...} with the keys of every
\* object in ascending order
CanonText(detection_results, dark, comma, colon) ==
    "{\"dark_vessels\"" \o colon \o "[" \o CanonElems(dark, 1, comma, colon) \o "]"
    \o comma \o "\"detections\"" \o colon
    \o "[" \o CanonElems(detection_results, 1, comma, colon) \o "]}"

\* C16 (as claimed): the bytes data_hash covers are the object with the keys of
\* every nesting level in ascending order, no whitespace between tokens, values
\* of other than primitive type as their quoted string form.
C16_CanonicalCompact ==
    (hash_status = "returned" /\ delta = "none") =>
        hash_result.data_hash
            = "sha256(" \o CanonText(radar_detections, dark_vessels, ",", ":") \o ")"

\* C16 (amended): the bytes data_hash covers are the object with the keys of
\* every nesting level in ascending order, one space after every comma and
\* every colon and no other whitespace between tokens, values of other than
\* primitive type as their quoted string form.
C16_CanonicalSpaced ==
    (hash_status = "returned" /\ delta = "none") =>
        hash_result.data_hash
            = "sha256(" \o CanonText(radar_detections, dark_vessels, ", ", ": ") \o ")"

\* a detection whose keys were inserted in another than ascending order and
\* which holds a value of non-primitive type
C16_Witness ==
    /\ hash_status = "returned"
    /\ delta = "none"
    /\ dark_vessels # <<>>
    /\ \E i \in 1..Len(radar_detections) :
           /\ Len(radar_detections[i]) > 1
           /\ radar_detections[i][1][1] = "vessel_id"
           /\ \E j \in 1..Len(radar_detections[i]) : radar_detections[i][j][2].t = "obj"

----------------------------------------------------------------------------
(* Properties of the timestamp step *)

\* C11: when the request to the time authority fails (unreachable, timeout,
\* error status, malformed body, body without datetime), get_ist_timestamp
\* returns; the record has the fallback source label and its UTC and IST
\* strings are the system clock's instant at offsets 0 and +05:30.
C11_FallbackOnFailure ==
    (timestamp_status # "idle" /\ time_response.status \in TimeFailures) =>
        /\ timestamp_status = "returned"
        /\ timestamp_result.source = "System Clock (Fallback)"
        /\ timestamp_result.datetime_utc
               = Strftime([instant |-> clock_now, offset |-> 0])
        /\ timestamp_result.datetime_ist
               = Strftime([instant |-> clock_now, offset |-> 330])
        /\ (clock_now = 1200 =>
               /\ timestamp_result.datetime_utc = "2026-02-18 20:00:00"
               /\ timestamp_result.datetime_ist = "2026-02-19 01:30:00")

\* the request timed out at 20:00 UTC
C11_Witness ==
    /\ timestamp_status = "returned"
    /\ time_response.status = "timeout"
    /\ clock_now = 1200
    /\ timestamp_result.source = "System Clock (Fallback)"
    /\ timestamp_result.datetime_ist = "2026-02-19 01:30:00"

\* C12: the timezone field of every record get_ist_timestamp returns is the
\* fixed IST label (UTC+05:30), on the remote path whatever the offset of the
\* datetime in the body, and on the fallback path.
C12_FixedTimezone ==
    timestamp_status = "returned" =>
        timestamp_result.timezone = "Asia/Kolkata (IST, UTC+05:30)"

\* the body carried a datetime at another offset than IST
C12_Witness ==
    /\ timestamp_status = "returned"
    /\ time_response.status = "ok"
    /\ time_response.datetime.offset = -300
    /\ timestamp_result.source = "worldtimeapi.org (Internet)"
    /\ timestamp_result.timezone = "Asia/Kolkata (IST, UTC+05:30)"

----------------------------------------------------------------------------
(* Properties of a pipeline run *)

\* C13: no condition ends a run early: whatever the vision service, the image
\* file, the time authority and the AIS feed do, the run is never ended by an
\* error, and a finished run has performed fusion, hashing, timestamping and
\* report generation.
C13_NoFatalCondition ==
    /\ pc # "aborted"
    /\ pc = "done" =>
           /\ fusion_status = "returned"
           /\ hash_status = "returned"
           /\ timestamp_status = "returned"
           /\ report_id \in reports

\* the response text is no JSON, is JSON that is no list, is a list with an
\* element that is no record, or is a list with a record without vessel_id
Malformed(outcome) ==
    \/ outcome.kind = "invalid_json"
    \/ /\ outcome.kind = "json"
       /\ \/ outcome.value.t # "list"
          \/ \E i \in 1..Len(outcome.value.elems) :
                 \/ outcome.value.elems[i].t # "dict"
                 \/ ~HasKey(outcome.value.elems[i].dict, "vessel_id")

\* C14: after step 2 a malformed detection payload has been replaced by
\* fallback detections, and the detections handed to fusion all carry the
\* vessel_id that fusion reads.
C14_MalformedReplaced ==
    pc \notin {"off", "detect"} =>
        /\ Malformed(vision_outcome) => radar_detections \in FallbackDraws
        /\ WellFormed(radar_detections)

\* C19: in a run the vision service is called at most once and the time
\* authority is requested at most once; after a failed vision call the
\* detections are the fallback ones, after a failed time request the record is
\* the fallback one, without a second call.
C19_NoRetry ==
    /\ vision_calls <= 1
    /\ time_calls <= 1
    /\ (pc \notin {"off", "detect"} /\ vision_outcome.kind = "api_error") =>
           /\ vision_calls = 1
           /\ detection_source = "Simulated (API Error)"
           /\ radar_detections \in FallbackDraws
    /\ (timestamp_status = "returned" /\ time_response.status # "ok") =>
           /\ time_calls = 1
           /\ timestamp_result.source = "System Clock (Fallback)"

\* a finished run in which both network operations failed
C19_Witness ==
    /\ pc = "done"
    /\ vision_outcome.kind = "api_error"
    /\ vision_calls = 1
    /\ radar_detections \in FallbackDraws
    /\ time_response.status = "unreachable"
    /\ time_calls = 1

----------------------------------------------------------------------------
(* Properties of the file name parser *)

Signed(parts_coord, negative) == [neg |-> negative, mag |-> parts_coord.value]

\* the descriptor of a name: signed coordinates, letters and date of the parts
DescriptorOf(parts) ==
    ParseResult("dict", Signed(parts.lat, parts.lat_dir = "S"),
                Signed(parts.lon, parts.lon_dir = "W"),
                parts.lat_dir, parts.lon_dir, parts.date.text)

\* <lat><N|S>_<lon><E|W>_<yyyy-mm-dd>.<ext>
FollowsConvention(parts) ==
    /\ parts.lat.numeral
    /\ parts.lat_dir \in {"N", "S"}
    /\ parts.sep = "_"
    /\ parts.lon.numeral
    /\ parts.lon_dir \in {"E", "W"}
    /\ parts.date.shaped
    /\ parts.ext # <<>>
    /\ parts.tail = <<>>

\* C20 (as claimed): a name of the form <lat><N|S>_<lon><E|W>_<yyyy-mm-dd>.<ext>
\* gives the descriptor with the latitude negated exactly for S, the longitude
\* exactly for W, and the date of the name; any other name gives no descriptor.
C20_ParseConvention ==
    parse_result.status # "idle" =>
        IF FollowsConvention(name_parts)
        THEN parse_result = DescriptorOf(name_parts)
        ELSE parse_result.status # "dict"

\* ([\d.]+)([NS])_([\d.]+)([EW])_(\d{4}-\d{2}-\d{2})\.jpeg in terms of the parts
FollowsPattern(parts) ==
    /\ parts.lat.run
    /\ parts.lat_dir \in {"N", "S"}
    /\ parts.sep = "_"
    /\ parts.lon.run
    /\ parts.lon_dir \in {"E", "W"}
    /\ parts.date.shaped
    /\ parts.ext = <<"j", "p", "e", "g">>

\* C20 (amended): a name <lat><N|S>_<lon><E|W>_<dddd-dd-dd>.jpeg (a line feed
\* may follow) whose <lat> and <lon> are numerals gives the descriptor with the
\* latitude negated exactly for S, the longitude exactly for W, and the ten date
\* characters of the name, whether or not they are a calendar date; such a
\* name whose <lat> or <lon> is a run of digits and points that is no numeral
\* raises ValueError; every other name, one with another extension too, gives
\* None.
C20_ParsePattern ==
    parse_result.status # "idle" =>
        IF ~FollowsPattern(name_parts)
        THEN parse_result.status = "None"
        ELSE IF name_parts.lat.numeral /\ name_parts.lon.numeral
        THEN parse_result = DescriptorOf(name_parts)
        ELSE parse_result.status = "ValueError"

\* 11.5S_66.5W_2026-02-20.jpeg
C20_Witness ==
    /\ parse_result.status = "dict"
    /\ name_parts.lat_dir = "S"
    /\ name_parts.lon_dir = "W"
    /\ parse_result.latitude = [neg |-> TRUE, mag |-> 23]
    /\ parse_result.longitude = [neg |-> TRUE, mag |-> 133]
    /\ parse_result.date = <<"2", "0", "2", "6", "-", "0", "2", "-", "2", "0">>

----------------------------------------------------------------------------
(* Properties of the order of the steps *)

\* the calls of steps 4 to 6 come in order, each after the previous one
\* returned, and hashing starts only after find_dark_vessels returned its
\* full incident list
LaterStepsInOrder ==
    /\ hash_status = "returned" =>
           /\ fusion_status = "returned"
           /\ Len(match_outcome) = Len(radar_detections)
           /\ Len(dark_vessels) = Len(UnmatchedIdx)
    /\ timestamp_status = "returned" => hash_status = "returned"
    /\ report_id # "" =>
           /\ hash_status = "returned"
           /\ hash_result # NoHash
           /\ timestamp_status = "returned"
           /\ timestamp_result # NoTimestamp

\* C21 (as claimed): the candidate list is complete before the first
\* detection is matched, no incident exists before every detection has its
\* match outcome, hashing starts only after the full incident list exists,
\* and the report is generated only after the hash set and the timestamp
\* record exist.
C21_ComponentsInSequence ==
    /\ match_outcome # <<>> => fusion_status # "idle"
    /\ dark_vessels # <<>> => Len(match_outcome) = Len(radar_detections)
    /\ LaterStepsInOrder

\* C21 (amended): the candidate list is complete before the first detection
\* is matched; the incident of a detection is constructed after that
\* detection has its match outcome (and before the next detection is
\* matched); hashing starts only after the full incident list exists, and the
\* report is generated only after the hash set and the timestamp record exist.
C21_StepsInSequence ==
    /\ match_outcome # <<>> => fusion_status # "idle"
    /\ Len(dark_vessels) <= Len(UnmatchedIdx)
    /\ \A k \in 1..Len(dark_vessels) :
           k <= Len(UnmatchedIdx) =>
               Item(dark_vessels[k], "radar_id")
                   = Item(radar_detections[UnmatchedIdx[k]], "vessel_id")
    /\ pc = "match" => Len(dark_vessels) = Len(UnmatchedIdx)
    /\ LaterStepsInOrder

\* a finished run with two detections, the first of them unmatched
C21_Witness ==
    /\ pc = "done"
    /\ Len(radar_detections) = 2
    /\ match_outcome[1] = 0
    /\ Len(dark_vessels) >= 1
    /\ hash_status = "returned"
    /\ timestamp_status = "returned"
    /\ report_id \in reports

----------------------------------------------------------------------------
(* Properties of the state shared between calls *)

\* C22: the result of find_dark_vessels depends on the values passed to it
\* only: whatever ran before it in the process (other invocations, the AIS
\* source, the detector fallback, the report generator), its match outcomes
\* and incidents are the ones it returns when it is the first call of the
\* process.
C22_NoSharedState ==
    fusion_status = "returned" =>
        LET first == find_dark_vessels_at(ais_data, radar_detections, sar_metadata,
                                          rng_stream, 0).result
        IN /\ match_outcome = first.outcome
           /\ dark_vessels = first.dark

----------------------------------------------------------------------------
(* Properties of the arguments of the calls *)

\* C23: the functions do not change what they are given: the step of
\* find_dark_vessels leaves the AIS list, the detection list and the scene
\* descriptor as they were, the steps of hash_evidence and generate_report
\* leave the detection list and the incident list as they were, and the step
\* of generate_report also the hash record and the timestamp record.
C23_ArgumentsUnchanged ==
    [][ /\ pc = "fusion" =>
              /\ ais_data' = ais_data
              /\ radar_detections' = radar_detections
              /\ sar_metadata' = sar_metadata
        /\ pc \in {"hash", "report"} =>
              /\ radar_detections' = radar_detections
              /\ dark_vessels' = dark_vessels
        /\ pc = "report" =>
              /\ hash_result' = hash_result
              /\ timestamp_result' = timestamp_result ]_vars

\* a finished run in which a ping was matched and an incident was hashed and
\* reported
C23_Witness ==
    /\ pc = "done"
    /\ ais_data # <<>>
    /\ matched_vessels # <<>>
    /\ dark_vessels # <<>>
    /\ hash_result # NoHash
    /\ timestamp_result # NoTimestamp
    /\ report_id \in reports

----------------------------------------------------------------------------
(* Properties of the report id *)

\* C24: generate_report gives every report an id that no report of the
\* reports directory has: the step that writes the report never writes to the
\* file of an earlier report.
C24_UniqueReportId ==
    [][pc = "report" => report_id' \notin reports]_vars

----------------------------------------------------------------------------
(* Properties of the two time strings *)

\* C25: in every record get_ist_timestamp returns, datetime_ist is the wall
\* clock 5 hours 30 minutes ahead of datetime_utc: both strings show one
\* instant, the first at UTC+05:30 and the second at UTC, whatever offset the
\* datetime of the remote body has, and on the fallback path.
C25_IstAheadOfUtc ==
    timestamp_status = "returned" =>
        \E u \in TimeInstants :
            /\ timestamp_result.datetime_utc = Strftime([instant |-> u, offset |-> 0])
            /\ timestamp_result.datetime_ist =
                   Strftime([instant |-> u, offset |-> IST_OFFSET])

----------------------------------------------------------------------------
(* Properties of the hashes of a missing image *)

\* C26: for a missing image hash_evidence returns an evidence_hash equal to
\* its data_hash, and when a zero-length image is deleted and the same lists
\* are hashed again, the triple is the one returned while the file existed.
C26_MissingAsEmpty ==
    /\ (hash_status = "returned" /\ delta = "none" /\ ~image_file.exists) =>
           hash_result.evidence_hash = hash_result.data_hash
    /\ (hash_status = "returned" /\ last_delta = "removed_empty") =>
           hash_result = hash_prev

\* the lists were hashed with the zero-length image and again without it
C26_Witness ==
    /\ hash_status = "returned"
    /\ last_delta = "removed_empty"
    /\ ~image_file.exists
    /\ hash_prev # NoHash
    /\ radar_detections # <<>>
    /\ dark_vessels # <<>>

----------------------------------------------------------------------------
(* Properties of the hemisphere letters *)

\* the narrative with the hemisphere letters given
NarrativeWith(sar, lat_dir, lon_dir) ==
    "Vessel detected via SAR at " \o Fmt5(Abs(sar.latitude)) \o "deg" \o lat_dir
    \o ", " \o Fmt5(Abs(sar.longitude)) \o "deg" \o lon_dir \o " on " \o sar.date
    \o ". No AIS transponder signal was received from this location, "
    \o "creating a 'Dark Period' in protected waters."

\* C27: for a scene descriptor made from a file name, the narrative of every
\* incident carries the N/S letter and the E/W letter of the file name, also
\* when the latitude or longitude of the name is zero with S or W.
C27_HemisphereLetters ==
    (pc = "hash" /\ parse_result.status = "dict") =>
        \A k \in 1..Len(dark_vessels) :
            Item(dark_vessels[k], "behavioral_anomaly")
                = PyStr(NarrativeWith(sar_metadata, name_parts.lat_dir,
                                      name_parts.lon_dir))

=============================================================================
